---- MODULE Spec2Model ----
(***************************************************************************)
(* Model of the automated tax rulings scraper:                             *)
(*   - src/src/utils/date_utils.py    date strings, normalisation          *)
(*   - src/src/utils/base_scraper.py  BaseScraper.get_target_dates         *)
(*   - src/src/sheets_uploader.py     SheetsUploader upload operations     *)
(*   - src/src/main.py                main pipeline                        *)
(*   - src/src/taxsuta_scraper.py     RulingsScraper date filter           *)
(*                                                                         *)
(* A string is a sequence of tokens.  A token is a record                  *)
(*   [k |-> kind, s |-> text, n |-> value, w |-> digits]                   *)
(* with k = "num" (a run of w digits of value n), "word" (a run of         *)
(* letters s), "sym" (one punctuation character s) or "ws" (a run of w     *)
(* blanks).  Parsing and formatting work on these tokens the way strptime, *)
(* strftime, str.split and re.sub work on characters.                      *)
(***************************************************************************)
EXTENDS Integers, Sequences, FiniteSets, TLC

VARIABLES
    today,        \* the wall-clock date, what date.today() returns now
    tpc,          \* position inside BaseScraper.get_target_dates
    tdToday,      \* `today` local of get_target_dates (base_scraper.py:206)
    tdInner,      \* date read by the helper it calls (date_utils.py:24/29)
    targetDates,  \* value returned by get_target_dates
    nrm,          \* last pair of normalize_date_for_compare applications
    scan,         \* last date-filter decision of the rulings scan
    sheet,        \* rows of the spreadsheet tab, row 1 first
    service,      \* SheetsUploader.service is set
    ncalls,       \* number of upload calls made so far
    last,         \* the last upload call: arguments, store outcomes, result
    mpc,          \* position inside main()
    buckets,      \* the seven buckets assembled by main()
    log,          \* sequence of backup / upload attempts made by main()
    results,      \* outcome of each upload attempted by main()
    exitCode,     \* value returned by main()
    fx,           \* one application of a helper function: arguments, result
    race          \* two uploaders working on the same sheet, step by step

dateVars   == <<today, tpc, tdToday, tdInner, targetDates>>
normVars   == <<nrm, scan>>
uploadVars == <<sheet, service, ncalls, last>>
mainVars   == <<mpc, buckets, log, results, exitCode>>
callVars   == <<fx, race>>
vars       == <<today, tpc, tdToday, tdInner, targetDates, nrm, scan,
                sheet, service, ncalls, last, mpc, buckets, log, results,
                exitCode, fx, race>>

(***************************************************************************)
(* Bounds                                                                  *)
(***************************************************************************)
\* number of days after FirstDay the clock may reach
MaxDays == 9
\* longest bucket handed to an upload operation
MaxBucket == 1
\* number of upload calls made on one uploader
MaxCalls == 2

(***************************************************************************)
(* Calendar: datetime.date                                                 *)
(***************************************************************************)
None == [y |-> 0, m |-> 0, d |-> 0]

IsLeap(y) == (y % 4 = 0) /\ ((y % 100 # 0) \/ (y % 400 = 0))

DaysInMonth(y, m) ==
    IF m = 2 THEN (IF IsLeap(y) THEN 29 ELSE 28)
    ELSE IF m \in {4, 6, 9, 11} THEN 30 ELSE 31

\* days before the first day of month m in year y
RECURSIVE DaysBeforeMonth(_, _)
DaysBeforeMonth(y, m) ==
    IF m = 1 THEN 0 ELSE DaysBeforeMonth(y, m - 1) + DaysInMonth(y, m - 1)

\* date.toordinal(): 1 for 0001-01-01
ToOrdinal(dt) ==
    LET y1 == dt.y - 1
    IN  y1 * 365 + (y1 \div 4) - (y1 \div 100) + (y1 \div 400)
        + DaysBeforeMonth(dt.y, dt.m) + dt.d

\* date.weekday(): Monday is 0, Sunday is 6
Weekday(dt) == (ToOrdinal(dt) + 6) % 7

IsValidDate(y, m, d) ==
    /\ y \in 1..9999 /\ m \in 1..12 /\ d >= 1 /\ d <= DaysInMonth(y, m)

\* dt - timedelta(days=1)
PrevDay(dt) ==
    IF dt.d > 1 THEN [dt EXCEPT !.d = dt.d - 1]
    ELSE IF dt.m > 1
         THEN [y |-> dt.y, m |-> dt.m - 1, d |-> DaysInMonth(dt.y, dt.m - 1)]
         ELSE [y |-> dt.y - 1, m |-> 12, d |-> 31]

\* dt + timedelta(days=1): the clock passing midnight
NextDay(dt) ==
    IF dt.d < DaysInMonth(dt.y, dt.m) THEN [dt EXCEPT !.d = dt.d + 1]
    ELSE IF dt.m < 12 THEN [y |-> dt.y, m |-> dt.m + 1, d |-> 1]
         ELSE [y |-> dt.y + 1, m |-> 1, d |-> 1]

\* dt - timedelta(days=n)
RECURSIVE MinusDays(_, _)
MinusDays(dt, n) == IF n = 0 THEN dt ELSE MinusDays(PrevDay(dt), n - 1)

RECURSIVE PlusDays(_, _)
PlusDays(dt, n) == IF n = 0 THEN dt ELSE PlusDays(NextDay(dt), n - 1)

(***************************************************************************)
(* Strings as token sequences                                              *)
(***************************************************************************)
Num(n, w) == [k |-> "num",  s |-> "", n |-> n, w |-> w]
Word(s)   == [k |-> "word", s |-> s,  n |-> 0, w |-> 0]
Sym(s)    == [k |-> "sym",  s |-> s,  n |-> 0, w |-> 0]
Ws(w)     == [k |-> "ws",   s |-> "", n |-> 0, w |-> w]

\* calendar.month_name / calendar.month_abbr of the C locale
MonthName == <<"January", "February", "March", "April", "May", "June",
               "July", "August", "September", "October", "November",
               "December">>
MonthAbbr == <<"Jan", "Feb", "Mar", "Apr", "May", "Jun",
               "Jul", "Aug", "Sep", "Oct", "Nov", "Dec">>

\* number of decimal digits of n when printed without padding
Digits(n) == IF n < 10 THEN 1 ELSE IF n < 100 THEN 2
             ELSE IF n < 1000 THEN 3 ELSE 4

\* strftime %d and %Y: zero padded to 2 and 4 digits
Fmt_d(dt) == Num(dt.d, 2)
Fmt_Y(dt) == Num(dt.y, 4)

\* dt.strftime("%d %B %Y")
StrfLong(dt) ==
    <<Fmt_d(dt), Ws(1), Word(MonthName[dt.m]), Ws(1), Fmt_Y(dt)>>

\* dt.strftime("%b %d, %Y")
StrfShort(dt) ==
    <<Word(MonthAbbr[dt.m]), Ws(1), Fmt_d(dt), Sym(","), Ws(1), Fmt_Y(dt)>>

\* the python string "N/A" and the empty string
NA == <<Word("N"), Sym("/"), Word("A")>>
Empty == <<>>
\* the python value None where a string is expected
PyNone == <<[k |-> "none", s |-> "", n |-> 0, w |-> 0]>>

(***************************************************************************)
(* date_utils.py: parsing and normalisation                                *)
(***************************************************************************)
OrdinalSuffixes == {"st", "nd", "rd", "th"}

\* re.sub(r'(\d+)(st|nd|rd|th)', r'\1', s): drop a suffix that directly
\* follows a run of digits
RECURSIVE StripFrom(_, _)
StripFrom(s, i) ==
    IF i > Len(s) THEN <<>>
    ELSE IF /\ i > 1
            /\ s[i].k = "word" /\ s[i].s \in OrdinalSuffixes
            /\ s[i - 1].k = "num"
         THEN StripFrom(s, i + 1)
         ELSE <<s[i]>> \o StripFrom(s, i + 1)

StripOrdinals(s) == StripFrom(s, 1)

\* str.strip(): drop leading and trailing whitespace
RECURSIVE LStrip(_)
LStrip(s) == IF s # <<>> /\ s[1].k = "ws" THEN LStrip(Tail(s)) ELSE s

RECURSIVE RStrip(_)
RStrip(s) ==
    IF s # <<>> /\ s[Len(s)].k = "ws"
    THEN RStrip(SubSeq(s, 1, Len(s) - 1)) ELSE s

Strip(s) == RStrip(LStrip(s))

\* " ".join(s.split()): strip, then every run of blanks becomes one blank
CollapseWs(s) ==
    LET t == Strip(s)
    IN  [i \in 1..Len(t) |-> IF t[i].k = "ws" THEN Ws(1) ELSE t[i]]

\* index of a month name in a table, 0 when it is none of them
MonthIndex(names, w) ==
    IF \E m \in 1..12 : names[m] = w
    THEN CHOOSE m \in 1..12 : names[m] = w
    ELSE 0

\* the directives of strptime
IsDay(t)   == t.k = "num" /\ t.w \in 1..2 /\ t.n \in 1..31
IsMonth(t) == t.k = "num" /\ t.w \in 1..2 /\ t.n \in 1..12
IsYear(t)  == t.k = "num" /\ t.w = 4
IsName(t, names) == t.k = "word" /\ MonthIndex(names, t.s) # 0
IsWs(t)    == t.k = "ws"
IsSym(t, c) == t.k = "sym" /\ t.s = c

\* datetime(y, m, d), None standing for ValueError
MkDate(y, m, d) ==
    IF IsValidDate(y, m, d) THEN [y |-> y, m |-> m, d |-> d] ELSE None

\* strptime(s, "%d %B %Y") with names = MonthName, "%d %b %Y" with MonthAbbr
ParseDayNameYear(s, names) ==
    IF /\ Len(s) = 5
       /\ IsDay(s[1]) /\ IsWs(s[2]) /\ IsName(s[3], names)
       /\ IsWs(s[4]) /\ IsYear(s[5])
    THEN MkDate(s[5].n, MonthIndex(names, s[3].s), s[1].n)
    ELSE None

\* strptime(s, "%B %d, %Y") with names = MonthName, "%b %d, %Y" with MonthAbbr
ParseNameDayYear(s, names) ==
    IF /\ Len(s) = 6
       /\ IsName(s[1], names) /\ IsWs(s[2]) /\ IsDay(s[3])
       /\ IsSym(s[4], ",") /\ IsWs(s[5]) /\ IsYear(s[6])
    THEN MkDate(s[6].n, MonthIndex(names, s[1].s), s[3].n)
    ELSE None

\* strptime(s, "%d-%m-%Y") with c = "-", "%d/%m/%Y" with c = "/"
ParseDMY(s, c) ==
    IF /\ Len(s) = 5
       /\ IsDay(s[1]) /\ IsSym(s[2], c) /\ IsMonth(s[3])
       /\ IsSym(s[4], c) /\ IsYear(s[5])
    THEN MkDate(s[5].n, s[3].n, s[1].n)
    ELSE None

\* strptime(s, "%Y-%m-%d")
ParseYMD(s) ==
    IF /\ Len(s) = 5
       /\ IsYear(s[1]) /\ IsSym(s[2], "-") /\ IsMonth(s[3])
       /\ IsSym(s[4], "-") /\ IsDay(s[5])
    THEN MkDate(s[1].n, s[3].n, s[5].n)
    ELSE None

\* the list date_formats, in the order it is tried
NumFormats == 7

Strptime(s, f) ==
    CASE f = 1 -> ParseDayNameYear(s, MonthName)
      [] f = 2 -> ParseDayNameYear(s, MonthAbbr)
      [] f = 3 -> ParseNameDayYear(s, MonthName)
      [] f = 4 -> ParseNameDayYear(s, MonthAbbr)
      [] f = 5 -> ParseDMY(s, "-")
      [] f = 6 -> ParseDMY(s, "/")
      [] f = 7 -> ParseYMD(s)

\* the first format of date_formats that parses s, 0 when none does
RECURSIVE FirstFormat(_, _)
FirstFormat(s, f) ==
    IF f > NumFormats THEN 0
    ELSE IF Strptime(s, f) # None THEN f ELSE FirstFormat(s, f + 1)

Pow10(n) == CASE n = 0 -> 1 [] n = 1 -> 10 [] n = 2 -> 100 [] n = 3 -> 1000
              [] OTHER -> 10000

SepChars == {"-", ".", "/"}
IsSep(t) == t.k = "sym" /\ t.s \in SepChars

\* re.search(r'(\d{1,2})[-./](\d{1,2})[-./](\d{4})', s) matching at token i:
\* the last one or two digits of a run, a whole run of one or two digits,
\* the first four digits of a run
MatchDMY(s, i) ==
    /\ i + 4 <= Len(s)
    /\ s[i].k = "num" /\ IsSep(s[i + 1])
    /\ s[i + 2].k = "num" /\ s[i + 2].w \in 1..2 /\ IsSep(s[i + 3])
    /\ s[i + 4].k = "num" /\ s[i + 4].w >= 4

\* re.search(r'(\d{4})[-./](\d{1,2})[-./](\d{1,2})', s) matching at token i
MatchYMD(s, i) ==
    /\ i + 4 <= Len(s)
    /\ s[i].k = "num" /\ s[i].w >= 4 /\ IsSep(s[i + 1])
    /\ s[i + 2].k = "num" /\ s[i + 2].w \in 1..2 /\ IsSep(s[i + 3])
    /\ s[i + 4].k = "num"

FirstDigits(t, c) == IF t.w <= c THEN t.n ELSE t.n \div Pow10(t.w - c)
LastDigits(t, c)  == IF t.w <= c THEN t.n ELSE t.n % Pow10(c)

\* the regex fallback of normalize_date_for_compare: "none" when neither
\* pattern matches, else the date built from the first match (None when
\* datetime() raises ValueError)
RegexDate(s) ==
    IF \E i \in 1..Len(s) : MatchDMY(s, i)
    THEN LET i == CHOOSE j \in 1..Len(s) :
                    MatchDMY(s, j) /\ \A h \in 1..(j - 1) : ~MatchDMY(s, h)
         IN  [hit |-> TRUE,
              dt  |-> MkDate(FirstDigits(s[i + 4], 4), s[i + 2].n,
                             LastDigits(s[i], 2))]
    ELSE IF \E i \in 1..Len(s) : MatchYMD(s, i)
    THEN LET i == CHOOSE j \in 1..Len(s) :
                    MatchYMD(s, j) /\ \A h \in 1..(j - 1) : ~MatchYMD(s, h)
         IN  [hit |-> TRUE,
              dt  |-> MkDate(LastDigits(s[i], 4), s[i + 2].n,
                             FirstDigits(s[i + 4], 2))]
    ELSE [hit |-> FALSE, dt |-> None]

\* normalize_date_for_compare without the re.sub that drops ordinal suffixes
normalize_date_for_compare_KeepOrdinals(date_str) ==
    LET s == date_str
        f == FirstFormat(Strip(s), 1)
        r == RegexDate(s)
    IN  IF f # 0 THEN StrfLong(Strptime(Strip(s), f))
        ELSE IF r.hit /\ r.dt # None THEN StrfLong(r.dt)
        ELSE s

normalize_date_for_compare(date_str) ==
    LET s == StripOrdinals(date_str)
        f == FirstFormat(Strip(s), 1)
        r == RegexDate(s)
    IN  IF f # 0 THEN StrfLong(Strptime(Strip(s), f))
        ELSE IF r.hit /\ r.dt # None THEN StrfLong(r.dt)
        ELSE s

\* is_today_date(date_str) when date.today() returns now
is_today_date(date_str, now) ==
    normalize_date_for_compare(date_str)
        = normalize_date_for_compare(StrfLong(now))

\* is_target_date without its first two lines
is_target_date_outcome_NoGuard(date_string, target_dates) ==
    IF date_string = PyNone THEN "raised"
    ELSE IF \E i \in 1..Len(target_dates) :
               CollapseWs(date_string) = CollapseWs(target_dates[i])
    THEN "True" ELSE "False"

\* is_target_date: what it returns, or "raised" when date_string.strip() is
\* reached with a date_string that is not a string
is_target_date_outcome(date_string, target_dates) ==
    IF date_string = PyNone \/ date_string = Empty \/ date_string = NA
    THEN "False"
    ELSE IF date_string = PyNone THEN "raised"
    ELSE IF \E i \in 1..Len(target_dates) :
               CollapseWs(date_string) = CollapseWs(target_dates[i])
    THEN "True" ELSE "False"

is_target_date(date_string, target_dates) ==
    is_target_date_outcome(date_string, target_dates) = "True"

\* get_yesterday_string() when date.today() returns now
get_yesterday_string(now) == StrfShort(PrevDay(now))

\* get_weekend_dates returning Sunday before Saturday
get_weekend_dates_SundayFirst(now) ==
    IF Weekday(now) = 0
    THEN <<StrfShort(MinusDays(now, 1)), StrfShort(MinusDays(now, 2))>>
    ELSE <<StrfShort(MinusDays(now, 1))>>

\* get_weekend_dates() when date.today() returns now
get_weekend_dates(now) ==
    IF Weekday(now) = 0
    THEN <<StrfShort(MinusDays(now, 2)), StrfShort(MinusDays(now, 1))>>
    ELSE <<StrfShort(MinusDays(now, 1))>>

(***************************************************************************)
(* The wall clock and BaseScraper.get_target_dates                         *)
(***************************************************************************)
\* first day the clock may show: Saturday 24 February 2024
FirstDay == [y |-> 2024, m |-> 2, d |-> 24]

ClockDays == {PlusDays(FirstDay, i) : i \in 0..MaxDays}

\* midnight passes
Tick ==
    /\ ToOrdinal(today) < ToOrdinal(FirstDay) + MaxDays
    /\ today' = NextDay(today)
    /\ UNCHANGED <<tpc, tdToday, tdInner, targetDates>>
    /\ UNCHANGED <<normVars, uploadVars, mainVars, callVars>>

\* the branch get_target_dates takes for the date it read
TargetBranch_SundayOnly(now) ==
    IF Weekday(now) = 6 THEN "none"
    ELSE IF Weekday(now) = 0 THEN "weekend" ELSE "yesterday"

TargetBranch(now) ==
    IF Weekday(now) \in {5, 6} THEN "none"
    ELSE IF Weekday(now) = 0 THEN "weekend" ELSE "yesterday"

\* get_target_dates: today = date.today() and the weekday tests
GetTargetDates ==
    /\ tpc = "idle"
    /\ tdToday' = today
    /\ tdInner' = None
    /\ IF TargetBranch(today) = "none"
       THEN tpc' = "done" /\ targetDates' = <<>>
       ELSE tpc' = TargetBranch(today) /\ targetDates' = <<>>
    /\ UNCHANGED today
    /\ UNCHANGED <<normVars, uploadVars, mainVars, callVars>>

\* target_dates = self.get_weekend_dates(), which reads the clock again
GetWeekendDates ==
    /\ tpc = "weekend"
    /\ tdInner' = today
    /\ targetDates' = get_weekend_dates(today)
    /\ tpc' = "done"
    /\ UNCHANGED <<today, tdToday>>
    /\ UNCHANGED <<normVars, uploadVars, mainVars, callVars>>

\* target_dates = [self.get_yesterday_string()], which reads the clock again
GetYesterdayString ==
    /\ tpc = "yesterday"
    /\ tdInner' = today
    /\ targetDates' = <<get_yesterday_string(today)>>
    /\ tpc' = "done"
    /\ UNCHANGED <<today, tdToday>>
    /\ UNCHANGED <<normVars, uploadVars, mainVars, callVars>>

\* return target_dates; the next collector will call again
ReturnTargetDates ==
    /\ tpc = "done"
    /\ scan.pc = "idle"
    /\ tpc' = "idle"
    /\ UNCHANGED <<today, tdToday, tdInner, targetDates>>
    /\ UNCHANGED <<normVars, uploadVars, mainVars, callVars>>

(***************************************************************************)
(* Date strings a site may show for a calendar day                         *)
(***************************************************************************)
\* the ordinal suffix English gives to a day of the month
SuffixOf(d) ==
    IF d \in {11, 12, 13} THEN "th"
    ELSE IF d % 10 = 1 THEN "st"
    ELSE IF d % 10 = 2 THEN "nd"
    ELSE IF d % 10 = 3 THEN "rd" ELSE "th"

\* the day of the month, with or without leading zero and ordinal suffix
DayTokens(dt, pad, suffix) ==
    <<Num(dt.d, IF pad THEN 2 ELSE Digits(dt.d))>>
        \o (IF suffix THEN <<Word(SuffixOf(dt.d))>> ELSE <<>>)

\* dt written in the f-th supported format
Render(dt, f, pad, suffix) ==
    CASE f = 1 -> DayTokens(dt, pad, suffix)
                    \o <<Ws(1), Word(MonthName[dt.m]), Ws(1), Num(dt.y, 4)>>
      [] f = 2 -> DayTokens(dt, pad, suffix)
                    \o <<Ws(1), Word(MonthAbbr[dt.m]), Ws(1), Num(dt.y, 4)>>
      [] f = 3 -> <<Word(MonthName[dt.m]), Ws(1)>>
                    \o DayTokens(dt, pad, suffix)
                    \o <<Sym(","), Ws(1), Num(dt.y, 4)>>
      [] f = 4 -> <<Word(MonthAbbr[dt.m]), Ws(1)>>
                    \o DayTokens(dt, pad, suffix)
                    \o <<Sym(","), Ws(1), Num(dt.y, 4)>>
      [] f = 5 -> DayTokens(dt, pad, suffix)
                    \o <<Sym("-"), Num(dt.m, 2), Sym("-"), Num(dt.y, 4)>>
      [] f = 6 -> DayTokens(dt, pad, suffix)
                    \o <<Sym("/"), Num(dt.m, 2), Sym("/"), Num(dt.y, 4)>>
      [] f = 7 -> <<Num(dt.y, 4), Sym("-"), Num(dt.m, 2), Sym("-")>>
                    \o DayTokens(dt, pad, suffix)

Styles == (1..NumFormats) \X BOOLEAN \X BOOLEAN

RenderStyle(dt, st) == Render(dt, st[1], st[2], st[3])

(***************************************************************************)
(* Applying normalize_date_for_compare to two date strings                 *)
(***************************************************************************)
NoNorm == [day1 |-> None, day2 |-> None, d1 |-> Empty, d2 |-> Empty,
           n1 |-> Empty, n2 |-> Empty, done |-> FALSE]

\* pairs of date strings: the same day, or a day and the next, each written
\* in one of the supported styles
NormInputs ==
    {[day1 |-> a, day2 |-> IF next THEN NextDay(a) ELSE a,
      d1 |-> RenderStyle(a, st1),
      d2 |-> RenderStyle(IF next THEN NextDay(a) ELSE a, st2),
      n1 |-> Empty, n2 |-> Empty, done |-> FALSE] :
        a \in ClockDays, next \in BOOLEAN, st1 \in Styles, st2 \in Styles}

Normalize ==
    /\ nrm.day1 # None
    /\ ~nrm.done
    /\ nrm' = [nrm EXCEPT !.n1 = normalize_date_for_compare(nrm.d1),
                          !.n2 = normalize_date_for_compare(nrm.d2),
                          !.done = TRUE]
    /\ UNCHANGED scan
    /\ UNCHANGED <<dateVars, uploadVars, mainVars, callVars>>

(***************************************************************************)
(* RulingsScraper.scrape_yesterday_rulings: the date filter                *)
(***************************************************************************)
\* most rows of the listing one scan examines
MaxRecords == 3
\* the listing shows days from tomorrow back to this many days ago
MaxAge == 4
\* number of rows of a date-descending listing the scan may examine
MaxListing == 5
\* number of pages of a listing, and number of rows on one page
MaxPages == 3
MaxPageRows == 2

NoScan == [pc |-> "idle", found |-> FALSE, n |-> 0, day |-> None,
           published |-> Empty, decision |-> "none", accepted |-> 0]

\* the if / elif chain applied to one row of the listing
Branch(isTarget, isToday, found) ==
    IF isTarget THEN "accept"
    ELSE IF isToday THEN "skip_today"
    ELSE IF found THEN "stop"
    ELSE "skip_other"

\* the chain with the two date tests it makes
Classify(published_date, target_dates, found, now) ==
    Branch(is_target_date(published_date, target_dates),
           is_today_date(published_date, now), found)

\* the days a row of the listing may carry
ListingDays == {NextDay(today)} \cup {MinusDays(today, i) : i \in 0..MaxAge}

\* target_dates = self.get_target_dates() has returned; the loop starts
ScanStart ==
    /\ tpc = "done"
    /\ scan.pc = "idle"
    /\ scan' = [NoScan EXCEPT !.pc = "scanning"]
    /\ UNCHANGED nrm
    /\ UNCHANGED <<dateVars, uploadVars, mainVars, callVars>>

\* extract_ruling_info_from_main_page: the next row of the listing is read
ScanRow ==
    /\ scan.pc = "scanning"
    /\ scan.n < MaxRecords
    /\ \E day \in ListingDays, st \in Styles, dated \in BOOLEAN :
         /\ (~dated) => (st = <<1, TRUE, FALSE>> /\ day = today)
         /\ scan' = [scan EXCEPT
                        !.pc = "row",
                        !.n = scan.n + 1,
                        !.day = IF dated THEN day ELSE None,
                        !.published = IF dated THEN RenderStyle(day, st)
                                      ELSE NA]
    /\ UNCHANGED nrm
    /\ UNCHANGED <<dateVars, uploadVars, mainVars, callVars>>

\* the row goes through the date filter; an accepted row has its detail
\* page visited, which may raise
ScanDecide ==
    /\ scan.pc = "row"
    /\ LET decision == Classify(scan.published, targetDates, scan.found,
                                today)
       IN  \E detailOk \in BOOLEAN :
             /\ (decision # "accept") => detailOk
             /\ scan' = [scan EXCEPT
                            !.pc = "decided",
                            !.decision = decision,
                            !.found = scan.found
                                        \/ (decision = "accept" /\ detailOk),
                            !.accepted = scan.accepted
                                + (IF decision = "accept" /\ detailOk
                                   THEN 1 ELSE 0)]
    /\ UNCHANGED nrm
    /\ UNCHANGED <<dateVars, uploadVars, mainVars, callVars>>

\* back to the head of the loop, or return all_rulings after a stop
ScanNext ==
    /\ scan.pc = "decided"
    /\ scan' = [scan EXCEPT
                   !.pc = IF scan.decision = "stop" THEN "returned"
                          ELSE "scanning",
                   !.day = None,
                   !.published = Empty,
                   !.decision = "none"]
    /\ UNCHANGED nrm
    /\ UNCHANGED <<dateVars, uploadVars, mainVars, callVars>>

\* no more rows and no next page: return all_rulings
ScanEnd ==
    /\ scan.pc = "scanning"
    /\ scan' = [scan EXCEPT !.pc = "returned"]
    /\ UNCHANGED nrm
    /\ UNCHANGED <<dateVars, uploadVars, mainVars, callVars>>

\* the caller has the result
ScanReturn ==
    /\ scan.pc = "returned"
    /\ scan' = NoScan
    /\ UNCHANGED nrm
    /\ UNCHANGED <<dateVars, uploadVars, mainVars, callVars>>

\* the formats extract_ruling_info_from_main_page looks for in the text of a
\* row: "Jun 09, 2025" and "2025-06-09"
ListingStyles == {<<4, TRUE, FALSE>>, <<7, TRUE, FALSE>>}

\* the log of one scan: the rows examined and what was done with each
NoScanLog == [fn |-> "scrape_yesterday_rulings", done |-> FALSE,
              arg |-> <<>>, out |-> <<>>]

\* one pass of the loop body over the next row of a date-descending listing:
\* the date filter, the visit of the detail page (which may raise) and the
\* return at a row past the target dates
ExamineRow ==
    /\ scan.pc = "scanning"
    /\ fx.fn = "scrape_yesterday_rulings"
    /\ Len(fx.arg) < MaxListing
    /\ \E day \in ListingDays, st \in ListingStyles, detailOk \in BOOLEAN :
         LET published == RenderStyle(day, st)
             decision == Classify(published, targetDates, scan.found, today)
             verdict == IF decision = "accept" /\ ~detailOk
                        THEN "detail_failed" ELSE decision
         IN  /\ fx.arg # <<>> =>
                    ToOrdinal(day) <= ToOrdinal(fx.arg[Len(fx.arg)].day)
             /\ (decision # "accept") => detailOk
             /\ scan' = [scan EXCEPT
                            !.pc = IF decision = "stop" THEN "returned"
                                   ELSE "scanning",
                            !.n = scan.n + 1,
                            !.found = scan.found \/ verdict = "accept",
                            !.accepted = scan.accepted
                                + (IF verdict = "accept" THEN 1 ELSE 0)]
             /\ fx' = [fx EXCEPT
                          !.arg = Append(fx.arg, [day |-> day,
                                                  published |-> published]),
                          !.out = Append(fx.out, verdict)]
    /\ UNCHANGED <<nrm, race>>
    /\ UNCHANGED <<dateVars, uploadVars, mainVars>>

(***************************************************************************)
(* sheets_uploader.py: records, rows and the spreadsheet tab               *)
(*                                                                         *)
(* A cell of columns A..C is a string; a cell of column D is the sequence  *)
(* of the pieces an f-string joins.  A raw record maps every key to a      *)
(* string or to Missing (the key is absent from the dict).                 *)
(***************************************************************************)
Missing == "<absent>"

Keys == {"Ruling Date", "Published Date", "Title", "Conclusion", "Citation",
         "Judicial Level & Location", "Case Name", "Taxpayer Name",
         "Case Law Information",
         "date", "title", "summary",
         "Date", "Category", "Sub-Category", "Content", "URL"}

\* dict.get(key, default)
Get(rec, key, default) == IF rec[key] = Missing THEN default ELSE rec[key]

\* a record with every field extracted, and one with every field absent
RecA == [k \in Keys |->
            IF k \in {"Published Date", "date", "Date"} THEN "Jun 06, 2025"
            ELSE IF k = "Ruling Date" THEN Missing
            ELSE "A"]
RecB == [k \in Keys |-> Missing]

Records == {RecA, RecB}

RECURSIVE SeqsUpTo(_, _)
SeqsUpTo(S, n) ==
    IF n = 0 THEN {<<>>}
    ELSE LET shorter == SeqsUpTo(S, n - 1)
         IN  shorter \cup {Append(b, r) : b \in shorter, r \in S}

Buckets == SeqsUpTo(Records, MaxBucket)

Kinds == {"rulings", "expert", "litigation", "taxmann"}

get_sheet_headers == <<"Date", "Category", "Sub-Category", <<"Summary">>>>

\* a spreadsheet row nothing was written to
BlankRow == <<"", "", "", <<>>>>

\* extract_case_reference, for texts that carry no [TS-...] reference
extract_case_reference(ruling) ==
    IF Get(ruling, "Citation", "N/A") # "N/A"
    THEN Get(ruling, "Citation", "N/A")
    ELSE ""

\* extract_judicial_level_location, for texts that name no court
extract_judicial_level_location(ruling) ==
    Get(ruling, "Judicial Level & Location", "N/A")

\* extract_case_name, for texts without a "Vs" pattern: the pieces of the name
extract_case_name(ruling) ==
    IF Get(ruling, "Case Name", "N/A") # "N/A"
    THEN <<Get(ruling, "Case Name", "N/A")>>
    ELSE IF Get(ruling, "Taxpayer Name", "N/A") # "N/A"
    THEN <<Get(ruling, "Taxpayer Name", "N/A"),
           " Vs Commissioner of Income Tax">>
    ELSE <<Get(ruling, "Case Law Information", "")>>

\* extract_court_abbreviation, for texts that name no court
extract_court_abbreviation(judicial_level_location) == "Court"

RulingRow_DropsMissingDate(ruling) ==
    LET jll == extract_judicial_level_location(ruling)
        summary == <<Get(ruling, "Title", ""), "\n\n",
                     Get(ruling, "Conclusion", ""), "\n\n">>
                   \o extract_case_name(ruling)
                   \o <<" - ", jll, " - ", extract_case_reference(ruling),
                        ":", extract_court_abbreviation(jll)>>
    IN  IF ruling["Ruling Date"] = Missing /\ ruling["Published Date"] = Missing
        THEN <<"Direct Tax", "Case Laws", summary>>
        ELSE <<Get(ruling, "Ruling Date", ruling["Published Date"]),
               "Direct Tax", "Case Laws", summary>>

RulingRow(ruling) ==
    LET date_value ==
            IF Get(ruling, "Ruling Date", "N/A") = "N/A"
            THEN Get(ruling, "Published Date", "N/A")
            ELSE Get(ruling, "Ruling Date", "N/A")
        jll == extract_judicial_level_location(ruling)
    IN  <<date_value, "Direct Tax", "Case Laws",
          <<Get(ruling, "Title", ""), "\n\n",
            Get(ruling, "Conclusion", ""), "\n\n">>
            \o extract_case_name(ruling)
            \o <<" - ", jll, " - ", extract_case_reference(ruling), ":",
                 extract_court_abbreviation(jll)>>>>

ExpertRow(article) ==
    <<Get(article, "date", "N/A"), "Direct tax", "Article",
      <<Get(article, "title", "")>>>>

LitigationRow(entry) ==
    <<Get(entry, "date", "N/A"), "Direct Tax", "Litigation",
      IF Get(entry, "summary", "") # ""
      THEN <<Get(entry, "title", ""), "\n\n", Get(entry, "summary", "")>>
      ELSE <<Get(entry, "title", "")>>>>

TaxmannRow(update) ==
    <<Get(update, "Date", "N/A"), Get(update, "Category", "N/A"),
      Get(update, "Sub-Category", "General"),
      <<Get(update, "Title", ""), "\n\n", Get(update, "Content", ""), "\n\n",
        "Source: Taxmann.com - ", Get(update, "URL", "")>>>>

RowOf(kind, rec) ==
    CASE kind = "rulings"    -> RulingRow(rec)
      [] kind = "expert"     -> ExpertRow(rec)
      [] kind = "litigation" -> LitigationRow(rec)
      [] kind = "taxmann"    -> TaxmannRow(rec)

\* data = [headers] followed by one row per record
PrepareData(kind, bucket) ==
    <<get_sheet_headers>>
        \o [i \in 1..Len(bucket) |-> RowOf(kind, bucket[i])]

\* values().get(range='A:A'): the rows of column A down to the last one
\* that holds a value
ColumnA(sh) ==
    LET filled == {i \in 1..Len(sh) : sh[i][1] # ""}
        top == IF filled = {} THEN 0
               ELSE CHOOSE i \in filled : \A j \in filled : j <= i
    IN  [i \in 1..top |-> sh[i][1]]

\* get_next_available_row; outcome "http" is the HttpError it catches
get_next_available_row(values, outcome) ==
    IF outcome = "http" THEN 1
    ELSE IF values = <<>> THEN 1 ELSE Len(values) + 1

\* values().clear(range='A:Z') when it succeeds
ClearedSheet == <<>>

\* an update that leaves every row that already holds values as it is
ValuesUpdate_KeepsFilled(sh, start, data) ==
    IF data = <<>> THEN sh
    ELSE LET stop == start + Len(data) - 1
             n == IF Len(sh) > stop THEN Len(sh) ELSE stop
         IN  [i \in 1..n |->
                IF i <= Len(sh) /\ sh[i] # BlankRow THEN sh[i]
                ELSE IF i >= start /\ i <= stop THEN data[i - start + 1]
                ELSE BlankRow]

\* values().update(range='A<start>', body={'values': data}) when it succeeds
ValuesUpdate(sh, start, data) ==
    IF data = <<>> THEN sh
    ELSE LET stop == start + Len(data) - 1
             n == IF Len(sh) > stop THEN Len(sh) ELSE stop
         IN  [i \in 1..n |->
                IF i >= start /\ i <= stop THEN data[i - start + 1]
                ELSE IF i <= Len(sh) THEN sh[i] ELSE BlankRow]

(***************************************************************************)
(* sheets_uploader.py: the four upload operations                          *)
(*                                                                         *)
(* o records how the collaborators answer during one call:                 *)
(*   o.auth   authenticate():                 "ok" | "fail"                *)
(*   o.name   get_first_sheet_name():         "ok" | "fail"                *)
(*   o.read   values().get in get_next_available_row:                      *)
(*                       "ok" | "http" (HttpError) | "error" (any other)   *)
(*   o.clear  values().clear in clear_sheet:  "ok" | "http" | "error"      *)
(*   o.write  values().update:                "ok" | "fail"                *)
(*   o.fmt    the formatting requests:        "ok" | "fail"                *)
(***************************************************************************)
Outcomes == [auth : {"ok", "fail"}, name : {"ok", "fail"},
             read : {"ok", "http", "error"}, clear : {"ok", "http", "error"},
             write : {"ok", "fail"}, fmt : {"ok", "fail"}]

\* where the rows go: clear_first, or the next available row
Placement(data, clear_first, next_row) ==
    IF clear_first \/ next_row = 1
    THEN [start |-> 1, body |-> data]
    ELSE [start |-> next_row, body |-> Tail(data)]

\* The body shared by the four operations.  resolve: the sheet name is
\* looked up first; fmtRaises: the statements after the update raise.
\* stage names the statement that ended the call.
UploadCore(data, clear_first, o, sh, svc, resolve, fmtRaises) ==
    LET next_row == get_next_available_row(ColumnA(sh), o.read)
        base == IF clear_first /\ o.clear = "ok" THEN ClearedSheet ELSE sh
        place == Placement(data, clear_first, next_row)
        fail(stage, s, served) ==
            [sheet |-> s, service |-> served, result |-> FALSE,
             wrote |-> FALSE, stage |-> stage, start |-> 0]
    IN  IF ~svc /\ o.auth = "fail" THEN fail("auth", sh, FALSE)
        ELSE IF resolve /\ o.name = "fail" THEN fail("name", sh, TRUE)
        ELSE IF clear_first /\ o.clear = "error" THEN fail("clear", sh, TRUE)
        ELSE IF ~clear_first /\ o.read = "error" THEN fail("read", sh, TRUE)
        ELSE IF o.write = "fail" THEN fail("write", base, TRUE)
        ELSE [sheet |-> ValuesUpdate(base, place.start, place.body),
              service |-> TRUE, result |-> ~fmtRaises, wrote |-> TRUE,
              stage |-> "done", start |-> place.start]

upload_data(bucket, clear_first, o, sh, svc) ==
    UploadCore(PrepareData("rulings", bucket), clear_first, o, sh, svc,
               FALSE, FALSE)

\* called with sheet_name=None, as main() does
upload_expert_corner_data(bucket, clear_first, o, sh, svc) ==
    UploadCore(PrepareData("expert", bucket), clear_first, o, sh, svc,
               TRUE, FALSE)

\* format_litigation_summary(sheet_name, start_row=next_row): next_row is
\* unbound after the clear_first branch
upload_litigation_tracker_data(bucket, clear_first, o, sh, svc) ==
    UploadCore(PrepareData("litigation", bucket), clear_first, o, sh, svc,
               TRUE, clear_first)

\* start_row=next_row if next_row > 1 else 2: next_row is unbound after the
\* clear_first branch
upload_taxmann_data(bucket, clear_first, o, sh, svc) ==
    UploadCore(PrepareData("taxmann", bucket), clear_first, o, sh, svc,
               FALSE, clear_first)

UploadCall(kind, bucket, clear_first, o, sh, svc) ==
    CASE kind = "rulings" -> upload_data(bucket, clear_first, o, sh, svc)
      [] kind = "expert" ->
            upload_expert_corner_data(bucket, clear_first, o, sh, svc)
      [] kind = "litigation" ->
            upload_litigation_tracker_data(bucket, clear_first, o, sh, svc)
      [] kind = "taxmann" ->
            upload_taxmann_data(bucket, clear_first, o, sh, svc)

\* cell_value.strip() is empty
CellBlank(cell) == \A i \in 1..Len(cell) : cell[i] \in {"", "\n\n"}

\* len([p.strip() for p in cell_value.split('\n\n') if p.strip()]): the
\* pieces of the cell text between blank lines that hold something
ParagraphCount(cell) ==
    Cardinality({i \in 1..Len(cell) :
        /\ cell[i] \notin {"", "\n\n"}
        /\ \A j \in 1..(i - 1) :
              (\A k \in j..(i - 1) : cell[k] # "\n\n") => cell[j] = ""})

\* start_row of the formatter each operation calls after its update, 0
\* where it calls none: format_summary_lines, format_litigation_summary,
\* format_taxmann_summary_lines
FormatStartRow(kind, clear_first, next_row) ==
    CASE kind = "rulings" ->
            IF clear_first \/ next_row = 1 THEN 2 ELSE next_row
      [] kind = "expert" -> 0
      [] kind = "litigation" -> next_row
      [] kind = "taxmann" -> IF next_row > 1 THEN next_row ELSE 2

\* a formatter that starts at row 2 whatever start_row it is given
FormatRewrites_FromRowTwo(kind, sh, start_row) ==
    IF start_row = 0 THEN {}
    ELSE {r \in 2..Len(sh) :
            /\ ~CellBlank(sh[r][4])
            /\ (kind = "litigation" \/ ParagraphCount(sh[r][4]) >= 3)}

\* the rows whose column D cell the formatter sends back in an updateCells
\* request with userEnteredValue: every non-blank cell from start_row on
\* for the litigation tracker, those of three paragraphs or more for
\* rulings and Taxmann updates (the others get a repeatCell request)
FormatRewrites(kind, sh, start_row) ==
    IF start_row = 0 THEN {}
    ELSE {r \in start_row..Len(sh) :
            /\ ~CellBlank(sh[r][4])
            /\ (kind = "litigation" \/ ParagraphCount(sh[r][4]) >= 3)}

RECURSIVE Ascending(_)
Ascending(rows) ==
    IF rows = {} THEN <<>>
    ELSE LET low == CHOOSE r \in rows : \A q \in rows : r <= q
         IN  <<low>> \o Ascending(rows \ {low})

\* the requests of one call that carry cell values, in the order they are
\* sent: values().update, then the updateCells requests of the formatter
\* when its batchUpdate goes through.  r is what UploadCall returned
CellWrites(kind, clear_first, o, data, r) ==
    IF ~r.wrote THEN <<>>
    ELSE LET body == Placement(data, clear_first, r.start).body
             formatted ==
                IF r.result /\ o.fmt = "ok"
                THEN Ascending(FormatRewrites(kind, r.sheet,
                        FormatStartRow(kind, clear_first, r.start)))
                ELSE <<>>
         IN  <<[via |-> "values.update", col |-> "A", row |-> r.start,
                rows |-> Len(body)]>>
             \o [i \in 1..Len(formatted) |->
                    [via |-> "updateCells", col |-> "D",
                     row |-> formatted[i], rows |-> 1]]

\* the answers a call actually consumed; "none" for a collaborator that was
\* not asked
Consumed(kind, clear_first, o, svc, r) ==
    LET reached(st) ==
            CASE st = "auth"  -> TRUE
              [] st = "name"  -> r.stage # "auth"
              [] st = "place" -> r.stage \notin {"auth", "name"}
              [] st = "write" -> r.stage \in {"write", "done"}
              [] st = "fmt"   -> r.stage = "done"
    IN  [auth  |-> IF svc THEN "none" ELSE o.auth,
         name  |-> IF kind \in {"expert", "litigation"} /\ reached("name")
                   THEN o.name ELSE "none",
         read  |-> IF ~clear_first /\ reached("place")
                   THEN o.read ELSE "none",
         clear |-> IF clear_first /\ reached("place")
                   THEN o.clear ELSE "none",
         write |-> IF reached("write") THEN o.write ELSE "none",
         fmt   |-> IF reached("fmt")
                      /\ kind # "expert"
                      /\ ~(kind = "litigation" /\ clear_first)
                   THEN o.fmt ELSE "none"]

NoOutcome == [auth |-> "none", name |-> "none", read |-> "none",
              clear |-> "none", write |-> "none", fmt |-> "none"]

NoCall == [kind |-> "none", bucket |-> <<>>, clear |-> FALSE,
           o |-> NoOutcome, before |-> <<>>, result |-> FALSE,
           wrote |-> FALSE, stage |-> "none", start |-> 0, twice |-> FALSE,
           writes |-> <<>>]

\* o answers only the collaborators the call asks: every other answer is
\* left at "ok"
Asked(kind, bucket, clear_first, o, sh, svc) ==
    /\ svc => o.auth = "ok"
    /\ kind \notin {"expert", "litigation"} => o.name = "ok"
    /\ clear_first => o.read = "ok"
    /\ ~clear_first => o.clear = "ok"
    /\ LET r == UploadCall(kind, bucket, clear_first, o, sh, svc)
           c == Consumed(kind, clear_first, o, svc, r)
       IN  \A f \in DOMAIN o : c[f] = "none" => o[f] = "ok"

\* the record of one call
CallRecord(kind, bucket, clear_first, o, sh, svc, prev) ==
    LET r == UploadCall(kind, bucket, clear_first, o, sh, svc)
    IN  [kind |-> kind, bucket |-> bucket, clear |-> clear_first,
         o |-> Consumed(kind, clear_first, o, svc, r),
         before |-> sh, result |-> r.result, wrote |-> r.wrote,
         stage |-> r.stage, start |-> r.start,
         twice |-> /\ prev.kind = kind /\ prev.bucket = bucket
                   /\ ~prev.clear /\ ~clear_first
                   /\ prev.before = <<>> /\ prev.result
                   /\ r.result,
         writes |-> CellWrites(kind, clear_first, o,
                               PrepareData(kind, bucket), r)]

\* what the tab may hold when the uploader is created: nothing, or the rows
\* of an earlier run
InitialSheets == {<<>>, PrepareData("rulings", <<RecA>>)}

\* one call of an upload operation on the uploader
Upload ==
    /\ ncalls < MaxCalls
    /\ \E kind \in Kinds, bucket \in Buckets, clear_first \in BOOLEAN,
          o \in Outcomes :
         LET r == UploadCall(kind, bucket, clear_first, o, sheet, service)
         IN  /\ Asked(kind, bucket, clear_first, o, sheet, service)
             /\ sheet' = r.sheet
             /\ service' = r.service
             /\ last' = CallRecord(kind, bucket, clear_first, o, sheet,
                                   service, last)
    /\ ncalls' = ncalls + 1
    /\ UNCHANGED <<dateVars, normVars, mainVars, callVars>>

(***************************************************************************)
(* main.py: main()                                                         *)
(***************************************************************************)
\* the buckets in the order main() uploads them
UploadOrder == <<"rulings", "expert_corner", "litigation_tracker", "gst",
                 "direct_tax", "company_sebi", "fema_banking">>

NumUploads == 7

\* the upload operation main() calls for the i-th bucket
KindOf(i) ==
    CASE i = 1 -> "rulings"
      [] i = 2 -> "expert"
      [] i = 3 -> "litigation"
      [] OTHER -> "taxmann"

\* what a collector may hand back
Collected == {<<>>, <<RecA>>}

NoBuckets == [i \in 1..NumUploads |-> <<>>]
\* the places of results that hold the outcome of the email and of the FTP
\* transfer, after those of the uploads
EmailStep == NumUploads + 1
FtpStep == NumUploads + 2

NoResults == [i \in 1..FtpStep |-> "none"]

\* driver = setup_driver(config), which returns a WebDriver or None;
\* login_to_taxsutra(driver, config) catches what goes wrong and its result
\* is not looked at
MainSetup ==
    /\ mpc = "start"
    /\ \E driver \in {<<"driver">>, <<>>} :
         fx' = [fn |-> "setup_driver", done |-> TRUE, arg |-> <<>>,
                out |-> driver]
    /\ mpc' = "collect1"
    /\ UNCHANGED <<buckets, log, results, exitCode, race>>
    /\ UNCHANGED <<dateVars, normVars, uploadVars>>

\* collectors that are built and run without a look at the driver
CollectTaxsutra_NoDriverCheck(i) ==
    /\ i \in 1..3
    /\ mpc = <<"collect1", "collect2", "collect3">>[i]
    /\ \/ /\ \E b \in Collected : buckets' = [buckets EXCEPT ![i] = b]
          /\ mpc' = <<"collect2", "collect3", "taxmann">>[i]
          /\ exitCode' = exitCode
       \/ /\ mpc' = "returned"
          /\ exitCode' = 1
          /\ buckets' = buckets
    /\ UNCHANGED <<log, results>>
    /\ UNCHANGED <<dateVars, normVars, uploadVars, callVars>>

\* one of the three Taxsutra collectors is built and returns its bucket, or
\* raises and main() returns 1; BaseScraper.__init__ raises ValueError when
\* the driver is None
CollectTaxsutra(i) ==
    /\ i \in 1..3
    /\ mpc = <<"collect1", "collect2", "collect3">>[i]
    /\ \/ /\ fx.out = <<"driver">>
          /\ \E b \in Collected : buckets' = [buckets EXCEPT ![i] = b]
          /\ mpc' = <<"collect2", "collect3", "taxmann">>[i]
          /\ exitCode' = exitCode
       \/ /\ mpc' = "returned"
          /\ exitCode' = 1
          /\ buckets' = buckets
    /\ UNCHANGED <<log, results>>
    /\ UNCHANGED <<dateVars, normVars, uploadVars, callVars>>

\* login_to_taxmann and the Taxmann collector, handed the four lists
CollectTaxmann ==
    /\ mpc = "taxmann"
    /\ \/ /\ \E g \in Collected, d \in Collected, c \in Collected,
                f \in Collected :
               buckets' = [buckets EXCEPT ![4] = g, ![5] = d, ![6] = c,
                                          ![7] = f]
          /\ mpc' = "backup"
          /\ exitCode' = exitCode
       \/ /\ mpc' = "returned"
          /\ exitCode' = 1
          /\ buckets' = buckets
    /\ UNCHANGED <<log, results>>
    /\ UNCHANGED <<dateVars, normVars, uploadVars, callVars>>

\* a backup that is only made when some bucket holds a record
SaveJsonBackup_OnlyWithData ==
    /\ mpc = "backup"
    /\ log' = IF \E i \in 1..NumUploads : buckets[i] # <<>>
              THEN Append(log, "backup") ELSE log
    /\ mpc' = "upload"
    /\ UNCHANGED <<buckets, results, exitCode>>
    /\ UNCHANGED <<dateVars, normVars, uploadVars, callVars>>

\* json_file = save_json_backup(all_data); it catches its own exceptions
SaveJsonBackup ==
    /\ mpc = "backup"
    /\ log' = Append(log, "backup")
    /\ mpc' = "upload"
    /\ UNCHANGED <<buckets, results, exitCode>>
    /\ UNCHANGED <<dateVars, normVars, uploadVars, callVars>>

\* number of buckets main() has dealt with
Dealt == Cardinality({i \in 1..NumUploads : results[i] # "none"})

\* the i-th "if bucket: uploader.upload_...(bucket) ... else: warning"
MainUpload_StopOnFailure(i) ==
    /\ mpc = "upload"
    /\ i = Dealt + 1
    /\ IF buckets[i] = <<>>
       THEN /\ results' = [results EXCEPT ![i] = "skipped"]
            /\ mpc' = IF i = NumUploads THEN "email" ELSE "upload"
            /\ exitCode' = exitCode
            /\ UNCHANGED <<log, sheet, service>>
       ELSE \E o \in Outcomes :
              LET r == UploadCall(KindOf(i), buckets[i], FALSE, o, sheet,
                                  service)
              IN  /\ Asked(KindOf(i), buckets[i], FALSE, o, sheet, service)
                  /\ sheet' = r.sheet
                  /\ service' = r.service
                  /\ log' = Append(log, UploadOrder[i])
                  /\ results' = [results EXCEPT
                                   ![i] = IF r.result THEN "ok" ELSE "failed"]
                  /\ mpc' = IF ~r.result THEN "returned"
                            ELSE IF i = NumUploads THEN "email" ELSE "upload"
                  /\ exitCode' = IF ~r.result THEN 1 ELSE exitCode
    /\ UNCHANGED <<buckets, ncalls, last>>
    /\ UNCHANGED <<dateVars, normVars, callVars>>

MainUpload(i) ==
    /\ mpc = "upload"
    /\ i = Dealt + 1
    /\ IF buckets[i] = <<>>
       THEN /\ results' = [results EXCEPT ![i] = "skipped"]
            /\ UNCHANGED <<log, sheet, service>>
       ELSE \E o \in Outcomes :
              LET r == UploadCall(KindOf(i), buckets[i], FALSE, o, sheet,
                                  service)
              IN  /\ Asked(KindOf(i), buckets[i], FALSE, o, sheet, service)
                  /\ sheet' = r.sheet
                  /\ service' = r.service
                  /\ log' = Append(log, UploadOrder[i])
                  /\ results' = [results EXCEPT
                                   ![i] = IF r.result THEN "ok" ELSE "failed"]
    /\ mpc' = IF i = NumUploads THEN "email" ELSE "upload"
    /\ UNCHANGED <<buckets, exitCode, ncalls, last>>
    /\ UNCHANGED <<dateVars, normVars, callVars>>

\* EmailSender().send_email(all_data) inside its own try / except: it
\* returns True or False, or EmailSender() or send_email raises
SendEmail ==
    /\ mpc = "email"
    /\ \E outcome \in {"ok", "failed", "raised"} :
         results' = [results EXCEPT ![EmailStep] = outcome]
    /\ mpc' = "ftp"
    /\ UNCHANGED <<buckets, log, exitCode>>
    /\ UNCHANGED <<dateVars, normVars, uploadVars, callVars>>

\* a main() whose except around upload_and_cleanup() returns 1
ShipFiles_RaiseIsFatal ==
    /\ mpc = "ftp"
    /\ \E outcome \in {"ok", "raised"} :
         /\ results' = [results EXCEPT ![FtpStep] = outcome]
         /\ exitCode' = IF outcome = "raised" THEN 1 ELSE 0
    /\ mpc' = "returned"
    /\ UNCHANGED <<buckets, log>>
    /\ UNCHANGED <<dateVars, normVars, uploadVars, callVars>>

\* upload_and_cleanup() inside its own try / except: it returns or raises;
\* then return 0
ShipFiles ==
    /\ mpc = "ftp"
    /\ \E outcome \in {"ok", "raised"} :
         results' = [results EXCEPT ![FtpStep] = outcome]
    /\ mpc' = "returned"
    /\ exitCode' = 0
    /\ UNCHANGED <<buckets, log>>
    /\ UNCHANGED <<dateVars, normVars, uploadVars, callVars>>

(***************************************************************************)
(* Helper functions applied to drawn arguments                             *)
(***************************************************************************)
NoFx == [fn |-> "none", done |-> FALSE, arg |-> <<>>, out |-> <<>>]

NoRace == [pc |-> "off"]

\* date strings handed to is_target_date: None, "", "N/A" and listing dates
TargetArgs == {PyNone, Empty, NA} \cup {StrfShort(d) : d \in ClockDays}

\* lists of target dates: what get_target_dates returns, and lists that
\* hold "N/A"
TargetLists ==
    SeqsUpTo({StrfShort(FirstDay), StrfShort(NextDay(FirstDay)), NA}, 2)

IsTargetDateInputs ==
    {[fn |-> "is_target_date", done |-> FALSE,
      arg |-> [date_string |-> s, target_dates |-> tl], out |-> <<>>] :
        s \in TargetArgs, tl \in TargetLists}

\* is_target_date(date_string, target_dates) is called
ApplyIsTargetDate ==
    /\ fx.fn = "is_target_date"
    /\ ~fx.done
    /\ fx' = [fx EXCEPT !.done = TRUE,
                        !.out = is_target_date_outcome(fx.arg.date_string,
                                                       fx.arg.target_dates)]
    /\ UNCHANGED race
    /\ UNCHANGED <<dateVars, normVars, uploadVars, mainVars>>

\* day, month and year that make no calendar day, such as 31/02/2023
ImpossibleDays == {[y |-> 2023, m |-> 2, d |-> 31],
                   [y |-> 2023, m |-> 2, d |-> 29],
                   [y |-> 2024, m |-> 4, d |-> 31]}

\* texts that are no date: None, "", "N/A", "Yesterday", "2nd Quarter 2023"
NoDateTexts ==
    {PyNone, Empty, NA, <<Word("Yesterday")>>,
     <<Num(2, 1), Word("nd"), Ws(1), Word("Quarter"), Ws(1), Num(2023, 4)>>}

\* arguments of normalize_date_for_compare; day is the calendar day the
\* string denotes, None when it denotes none
NormalizeInputs ==
    {[fn |-> "normalize_date_for_compare", done |-> FALSE,
      arg |-> [date_str |-> RenderStyle(dt, st), day |-> None],
      out |-> <<>>] : dt \in ImpossibleDays, st \in Styles}
    \cup
    {[fn |-> "normalize_date_for_compare", done |-> FALSE,
      arg |-> [date_str |-> s, day |-> None], out |-> <<>>] :
        s \in NoDateTexts}
    \cup
    {[fn |-> "normalize_date_for_compare", done |-> FALSE,
      arg |-> [date_str |-> RenderStyle(dt, st), day |-> dt],
      out |-> <<>>] : dt \in {FirstDay, NextDay(FirstDay)}, st \in Styles}

\* normalize_date_for_compare(date_str) is called
ApplyNormalize ==
    /\ fx.fn = "normalize_date_for_compare"
    /\ ~fx.done
    /\ fx' = [fx EXCEPT !.done = TRUE,
                        !.out = normalize_date_for_compare(fx.arg.date_str)]
    /\ UNCHANGED race
    /\ UNCHANGED <<dateVars, normVars, uploadVars, mainVars>>

\* the collectors of one run, in the order main() calls them
Collectors == <<"rulings", "expert_corner", "litigation_tracker", "taxmann">>

\* the log of one run: the target dates each collector worked with
NoRunLog == [fn |-> "main", done |-> FALSE, arg |-> <<>>, out |-> <<>>]

\* the next Taxsutra collector starts: target_dates = self.get_target_dates()
CollectorGetTargetDates ==
    /\ fx.fn = "main"
    /\ Len(fx.out) < 3
    /\ GetTargetDates

\* the days on which the pages the collectors read carry an entry
OfferedDays == {MinusDays(today, i) : i \in 0..MaxAge}

\* the test a Taxsutra collector puts an entry dated d to before it accepts
\* it (and, for rulings and the litigation tracker, opens its detail page):
\* is_target_date for rulings; for the other two the early return on an
\* empty list and normalized_date in normalized_targets
CollectorAccepts(who, d, dates) ==
    IF who = "rulings" THEN is_target_date(StrfShort(d), dates)
    ELSE /\ dates # <<>>
         /\ \E i \in 1..Len(dates) :
                normalize_date_for_compare(StrfShort(d))
                    = normalize_date_for_compare(dates[i])

\* the Taxsutra collector has worked with its target dates and returns
CollectorReturns ==
    /\ fx.fn = "main"
    /\ Len(fx.out) < 3
    /\ tpc = "done"
    /\ tpc' = "idle"
    /\ LET who == Collectors[Len(fx.out) + 1]
       IN  fx' = [fx EXCEPT !.out = Append(fx.out,
                    [who |-> who,
                     dates |-> targetDates,
                     day |-> tdToday,
                     accepted |-> {d \in OfferedDays :
                                    CollectorAccepts(who, d, targetDates)}])]
    /\ UNCHANGED <<today, tdToday, tdInner, targetDates, race>>
    /\ UNCHANGED <<normVars, uploadVars, mainVars>>

\* scrape_yesterday_archives_updates:
\* yesterday = (datetime.now() - timedelta(days=1)).strftime("%d %b %Y");
\* the links under every h3 header containing it are opened and kept
TaxmannYesterday ==
    /\ fx.fn = "main"
    /\ Len(fx.out) = 3
    /\ tpc = "idle"
    /\ LET yesterday == Render(PrevDay(today), 2, TRUE, FALSE)
       IN  fx' = [fx EXCEPT
                    !.out = Append(fx.out,
                        [who |-> Collectors[4],
                         dates |-> <<yesterday>>,
                         day |-> today,
                         accepted |-> {d \in OfferedDays :
                            Render(d, 2, TRUE, FALSE) = yesterday}]),
                    !.done = TRUE]
    /\ UNCHANGED race
    /\ UNCHANGED <<dateVars, normVars, uploadVars, mainVars>>

\* two uploaders, each in a process of its own, appending to the same tab
Uploaders == {1, 2}

\* what the two uploaders were handed
RaceInputs ==
    {[pc |-> <<"start", "start">>,
      data |-> <<PrepareData(k1, b1), PrepareData(k2, b2)>>,
      next_row |-> <<0, 0>>, start |-> <<0, 0>>, body |-> <<<<>>, <<>>>>,
      order |-> <<>>] :
        k1 \in Kinds, b1 \in Buckets, k2 \in Kinds, b2 \in Buckets}

\* uploader p, called with clear_first=False:
\* next_row = self.get_next_available_row(sheet_name) and the choice of range
RaceRead(p) ==
    /\ race.pc[p] = "start"
    /\ LET next_row == get_next_available_row(ColumnA(sheet), "ok")
           place == Placement(race.data[p], FALSE, next_row)
       IN  race' = [race EXCEPT !.pc[p] = "read",
                                !.next_row[p] = next_row,
                                !.start[p] = place.start,
                                !.body[p] = place.body,
                                !.order = Append(race.order, <<"read", p>>)]
    /\ UNCHANGED <<sheet, service, ncalls, last, fx>>
    /\ UNCHANGED <<dateVars, normVars, mainVars>>

\* uploader p: values().update(range=range_name, body=value_range)
RaceWrite(p) ==
    /\ race.pc[p] = "read"
    /\ sheet' = ValuesUpdate(sheet, race.start[p], race.body[p])
    /\ race' = [race EXCEPT !.pc[p] = "done",
                            !.order = Append(race.order, <<"write", p>>)]
    /\ UNCHANGED <<service, ncalls, last, fx>>
    /\ UNCHANGED <<dateVars, normVars, mainVars>>

(***************************************************************************)
(* taxsuta_scraper.py: scrape_yesterday_rulings over the pages of a listing *)
(*                                                                         *)
(* fx.arg is the listing: a sequence of pages, each a sequence of rows.    *)
(* scan.shown is the page the browser displays (0: no listing page),       *)
(* scan.infos what the two date tests give for each entry of ruling_infos, *)
(* scan.page and scan.idx the row of ruling_infos the loop is at,          *)
(* scan.top the last page the scan asked for, scan.appended[r] how often   *)
(* record r was appended to all_rulings (2 stands for twice or more) and   *)
(* scan.failed the records whose detail page raised.                       *)
(***************************************************************************)
\* the days the rows of a paged listing carry
PageDays == {MinusDays(today, i) : i \in 0..3}

RECURSIVE Flatten(_)
Flatten(pages) ==
    IF pages = <<>> THEN <<>> ELSE Head(pages) \o Flatten(Tail(pages))

\* the date-descending listings of up to MaxPages pages of 1..MaxPageRows
\* rows, every date written as the listing writes it
Listings ==
    LET rows == {[day |-> d, published |-> StrfShort(d)] : d \in PageDays}
        pages == SeqsUpTo(rows, MaxPageRows) \ {<<>>}
    IN  {l \in SeqsUpTo(pages, MaxPages) :
            \A k \in 1..Len(Flatten(l)) - 1 :
                ToOrdinal(Flatten(l)[k + 1].day)
                    <= ToOrdinal(Flatten(l)[k].day)}

\* position of row idx of page p in the whole listing
RecordAt(pages, p, idx) == Len(Flatten(SubSeq(pages, 1, p - 1))) + idx

NoPagedScan == [pc |-> "idle", found |-> FALSE, shown |-> 1, page |-> 0,
                idx |-> 0, infos |-> <<>>, top |-> 1, appended |-> <<>>,
                failed |-> {}]

\* self.driver.get(self.target_url); target_dates = self.get_target_dates()
\* has returned and the while loop is entered
PagedStart ==
    /\ tpc = "done"
    /\ scan.pc = "idle"
    /\ scan' = [NoPagedScan EXCEPT
                  !.pc = "page",
                  !.appended = [r \in 1..Len(Flatten(fx.arg)) |-> 0]]
    /\ UNCHANGED <<nrm, fx, race>>
    /\ UNCHANGED <<dateVars, uploadVars, mainVars>>

\* ruling_rows = find_elements(...) on the page displayed: break when there
\* are none, else ruling_infos is filled from them; the two date tests of
\* the loop body depend on the entry and the day only
LoadPage ==
    /\ scan.pc = "page"
    /\ IF scan.shown \in 1..Len(fx.arg)
       THEN scan' = [scan EXCEPT
                        !.pc = "rows", !.page = scan.shown, !.idx = 1,
                        !.infos = [i \in 1..Len(fx.arg[scan.shown]) |->
                            LET pd == fx.arg[scan.shown][i].published
                            IN  [target |-> is_target_date(pd, targetDates),
                                 today |-> is_today_date(pd, today)]]]
       ELSE scan' = [scan EXCEPT !.pc = "returned"]
    /\ UNCHANGED <<nrm, fx, race>>
    /\ UNCHANGED <<dateVars, uploadVars, mainVars>>

\* found_target_date after a row was dealt with
FoundAfter(found, decision, appended) ==
    found \/ (decision = "accept" /\ appended)

\* the loop body for the next entry of ruling_infos.  An accepted row has
\* its detail page visited: the record is appended or the visit raises, and
\* the first listing page is loaded again or that fails as well
PagedRow ==
    /\ scan.pc = "rows"
    /\ LET at == RecordAt(fx.arg, scan.page, scan.idx)
           decision == Branch(scan.infos[scan.idx].target,
                              scan.infos[scan.idx].today, scan.found)
           lastRow == scan.idx = Len(fx.arg[scan.page])
       IN  \E appended \in BOOLEAN, back \in BOOLEAN :
             /\ (decision # "accept") => (appended /\ back)
             /\ scan' = [scan EXCEPT
                   !.pc = IF decision = "stop" THEN "returned"
                          ELSE IF lastRow THEN "next" ELSE "rows",
                   !.idx = IF decision = "stop" \/ lastRow THEN scan.idx
                           ELSE scan.idx + 1,
                   !.found = FoundAfter(scan.found, decision, appended),
                   !.shown = IF decision # "accept" THEN scan.shown
                             ELSE IF back THEN 1 ELSE 0,
                   !.appended = IF decision = "accept" /\ appended
                                THEN [scan.appended EXCEPT
                                        ![at] = IF @ = 0 THEN 1 ELSE 2]
                                ELSE scan.appended,
                   !.failed = IF decision = "accept" /\ ~appended
                              THEN scan.failed \cup {at}
                              ELSE scan.failed]
    /\ UNCHANGED <<nrm, fx, race>>
    /\ UNCHANGED <<dateVars, uploadVars, mainVars>>

\* the 'next page' link of the page displayed is clicked, or there is none
\* and the loop ends
NextPage ==
    /\ scan.pc = "next"
    /\ IF scan.shown \in 1..Len(fx.arg) - 1
       THEN scan' = [scan EXCEPT
                        !.pc = "page",
                        !.shown = scan.shown + 1,
                        !.top = IF scan.shown + 1 > scan.top
                                THEN scan.shown + 1 ELSE scan.top]
       ELSE scan' = [scan EXCEPT !.pc = "returned"]
    /\ UNCHANGED <<nrm, fx, race>>
    /\ UNCHANGED <<dateVars, uploadVars, mainVars>>

\* the keys the rows of each kind are built from
RowKeys(kind) ==
    CASE kind = "rulings" ->
            {"Ruling Date", "Published Date", "Title", "Conclusion",
             "Citation", "Judicial Level & Location", "Case Name",
             "Taxpayer Name", "Case Law Information"}
      [] kind = "expert" -> {"date", "title"}
      [] kind = "litigation" -> {"date", "title", "summary"}
      [] kind = "taxmann" ->
            {"Date", "Category", "Sub-Category", "Title", "Content", "URL"}

\* the keys the cell of column c (A..C) is read from; {} for a fixed text
CellKeys(kind, c) ==
    CASE kind = "rulings" ->
            IF c = 1 THEN {"Ruling Date", "Published Date"} ELSE {}
      [] kind = "expert" -> IF c = 1 THEN {"date"} ELSE {}
      [] kind = "litigation" -> IF c = 1 THEN {"date"} ELSE {}
      [] kind = "taxmann" -> <<{"Date"}, {"Category"}, {"Sub-Category"}>>[c]

\* the records of a kind, with every subset of its fields absent
PartialRecords(kind) ==
    {[k \in Keys |->
        IF k \notin present THEN Missing
        ELSE IF k \in {"Ruling Date", "Published Date", "date", "Date"}
        THEN "Jun 06, 2025"
        ELSE "A"] : present \in SUBSET RowKeys(kind)}

PrepareInputs ==
    UNION {{[fn |-> "prepare_data_for_upload", done |-> FALSE,
             arg |-> [kind |-> kind, rec |-> r], out |-> <<>>] :
                r \in PartialRecords(kind)} : kind \in Kinds}

\* the rows for a one-record bucket of the drawn kind are prepared
ApplyPrepareData ==
    /\ fx.fn = "prepare_data_for_upload"
    /\ ~fx.done
    /\ fx' = [fx EXCEPT !.done = TRUE,
                        !.out = PrepareData(fx.arg.kind, <<fx.arg.rec>>)]
    /\ UNCHANGED race
    /\ UNCHANGED <<dateVars, normVars, uploadVars, mainVars>>

(***************************************************************************)
(* utils/driver_utils.py: login_to_taxsutra, and BaseScraper's             *)
(* login_and_navigate which relies on its result                           *)
(*                                                                         *)
(* The argument records how the browser and the site answer:               *)
(*   get       driver.get of the login page:      "ok" | "raises"          *)
(*   account   "My Account" is in page_source                              *)
(*   form      the fields and the button are found and used:               *)
(*                                                 "ok" | "raises"         *)
(*   accepted  the site accepts the credentials that were submitted        *)
(*   target    a target_url was given                                      *)
(***************************************************************************)
LoginInputs ==
    [fn : {"login_to_taxsutra", "login_and_navigate"}, done : {FALSE},
     arg : [get : {"ok", "raises"}, account : BOOLEAN,
            form : {"ok", "raises"}, accepted : BOOLEAN, target : BOOLEAN],
     out : {<<>>}]

\* what login_to_taxsutra returns: "None" where the function body ends
\* without a return statement
login_to_taxsutra(a) ==
    IF a.get = "raises" THEN "False"
    ELSE IF a.account THEN "True"
    ELSE IF a.form = "raises" THEN "False"
    ELSE "None"

\* the session is logged in when login_to_taxsutra is over
LoggedIn(a) ==
    a.get = "ok" /\ (a.account \/ (a.form = "ok" /\ a.accepted))

\* the page the browser is left on: target_url is opened in the branch of
\* a session that was logged in already, and nowhere else
LandsOn(a) ==
    IF a.get = "raises" THEN "nowhere"
    ELSE IF a.account /\ a.target THEN "target_url"
    ELSE "taxsutra"

\* if not self.login_to_taxsutra(url_to_use): return False; return True
login_and_navigate(a) ==
    IF login_to_taxsutra(a) \in {"False", "None"} THEN "False" ELSE "True"

CallLogin ==
    /\ fx.fn = "login_to_taxsutra"
    /\ ~fx.done
    /\ fx' = [fx EXCEPT !.done = TRUE, !.out = <<login_to_taxsutra(fx.arg),
                                        LandsOn(fx.arg)>>]
    /\ UNCHANGED race
    /\ UNCHANGED <<dateVars, normVars, uploadVars, mainVars>>

CallLoginAndNavigate ==
    /\ fx.fn = "login_and_navigate"
    /\ ~fx.done
    /\ fx' = [fx EXCEPT !.done = TRUE, !.out = <<login_and_navigate(fx.arg),
                                        LandsOn(fx.arg)>>]
    /\ UNCHANGED race
    /\ UNCHANGED <<dateVars, normVars, uploadVars, mainVars>>

(***************************************************************************)
(* sheets_uploader.py: the text format runs of a summary cell              *)
(*                                                                         *)
(* A cell text is a sequence of characters; positions are counted from 0   *)
(* as str.find and startIndex count them.                                  *)
(***************************************************************************)
\* longest cell text
MaxText == 7

Chars == {"a", " ", "\n"}

CellTexts == UNION {[1..n -> Chars] : n \in 1..MaxText}

Blank(c) == c \in {" ", "\n"}

\* text.strip()
TextStrip(text) ==
    LET inked == {i \in 1..Len(text) : ~Blank(text[i])}
    IN  IF inked = {} THEN <<>>
        ELSE SubSeq(text,
                    CHOOSE i \in inked : \A j \in inked : i <= j,
                    CHOOSE i \in inked : \A j \in inked : j <= i)

\* text.find(sub, start): the lowest position from start on at which sub
\* occurs, -1 when there is none
TextFind(text, sub, start) ==
    LET hits == {i \in start..(Len(text) - Len(sub)) :
                    SubSeq(text, i + 1, i + Len(sub)) = sub}
    IN  IF hits = {} THEN -1
        ELSE CHOOSE i \in hits : \A j \in hits : i <= j

\* text.split('\n\n')
RECURSIVE TextSplit(_)
TextSplit(text) ==
    LET at == TextFind(text, <<"\n", "\n">>, 0)
    IN  IF at = -1 THEN <<text>>
        ELSE <<SubSeq(text, 1, at)>>
                \o TextSplit(SubSeq(text, at + 3, Len(text)))

\* [p.strip() for p in cell_value.split('\n\n') if p.strip()]
Paragraphs(text) ==
    LET pieces == TextSplit(text)
    IN  SelectSeq([i \in 1..Len(pieces) |-> TextStrip(pieces[i])],
                  LAMBDA p : p # <<>>)

\* paragraph_positions: (i, start_pos, end_pos) of paragraph i, looked for
\* from the end of the one found before it
RECURSIVE ParagraphPositions(_, _, _, _)
ParagraphPositions(text, paragraphs, i, current_search_pos) ==
    IF i > Len(paragraphs) THEN <<>>
    ELSE LET start_pos == TextFind(text, paragraphs[i], current_search_pos)
             end_pos == start_pos + Len(paragraphs[i])
         IN  IF start_pos = -1
             THEN ParagraphPositions(text, paragraphs, i + 1,
                                     current_search_pos)
             ELSE <<[i |-> i - 1, start_pos |-> start_pos,
                     end_pos |-> end_pos]>>
                    \o ParagraphPositions(text, paragraphs, i + 1, end_pos)

\* paragraph_positions.sort(key=lambda x: x[1])
RECURSIVE SortByStart(_)
SortByStart(positions) ==
    IF positions = <<>> THEN <<>>
    ELSE LET k == CHOOSE k \in 1..Len(positions) :
                    /\ \A j \in 1..Len(positions) :
                          positions[k].start_pos <= positions[j].start_pos
                    /\ \A j \in 1..(k - 1) :
                          positions[j].start_pos # positions[k].start_pos
         IN  <<positions[k]>>
                \o SortByStart(SubSeq(positions, 1, k - 1)
                                \o SubSeq(positions, k + 1, Len(positions)))

\* bold for the first paragraph, orange for the third, {} for the others
ParagraphFormat(i) ==
    IF i = 0 THEN "bold" ELSE IF i = 2 THEN "orange" ELSE "default"

\* the loop that fills text_format_runs, and the run for the text left
\* after the last paragraph
RECURSIVE CoveringRuns(_, _, _, _)
CoveringRuns(text, positions, k, current_pos) ==
    IF k > Len(positions)
    THEN IF current_pos < Len(text)
         THEN <<[startIndex |-> current_pos, format |-> "default"]>>
         ELSE <<>>
    ELSE (IF current_pos < positions[k].start_pos
          THEN <<[startIndex |-> current_pos, format |-> "default"]>>
          ELSE <<>>)
         \o <<[startIndex |-> positions[k].start_pos,
               format |-> ParagraphFormat(positions[k].i)]>>
         \o CoveringRuns(text, positions, k + 1, positions[k].end_pos)

\* optimized_runs: a run is dropped when the run kept before it has the
\* same format
RECURSIVE OptimizedRuns(_, _)
OptimizedRuns(runs, kept) ==
    IF runs = <<>> THEN kept
    ELSE OptimizedRuns(Tail(runs),
            IF kept = <<>> \/ kept[Len(kept)].format # Head(runs).format
            THEN Append(kept, Head(runs)) ELSE kept)

\* the textFormatRuns format_summary_lines sends for one cell: none for a
\* blank cell and for one of fewer than three paragraphs
format_summary_lines(cell_value) ==
    IF TextStrip(cell_value) = <<>> \/ Len(Paragraphs(cell_value)) < 3
    THEN <<>>
    ELSE OptimizedRuns(
            CoveringRuns(cell_value,
                SortByStart(ParagraphPositions(cell_value,
                                Paragraphs(cell_value), 1, 0)),
                1, 0),
            <<>>)

\* the textFormatRuns format_litigation_summary sends for one cell
format_litigation_summary(cell_value) ==
    IF TextStrip(cell_value) = <<>> THEN <<>>
    ELSE LET first_newline == TextFind(cell_value, <<"\n">>, 0)
             bold_end == IF first_newline = -1 THEN Len(cell_value)
                         ELSE first_newline
         IN  <<[startIndex |-> 0, format |-> "bold"],
               [startIndex |-> bold_end, format |-> "default"]>>

RunInputs ==
    [fn : {"format_summary_lines", "format_litigation_summary"},
     done : {FALSE}, arg : CellTexts, out : {<<>>}]

ApplySummaryLines ==
    /\ fx.fn = "format_summary_lines"
    /\ ~fx.done
    /\ fx' = [fx EXCEPT !.done = TRUE, !.out = format_summary_lines(fx.arg)]
    /\ UNCHANGED race
    /\ UNCHANGED <<dateVars, normVars, uploadVars, mainVars>>

ApplyLitigationSummary ==
    /\ fx.fn = "format_litigation_summary"
    /\ ~fx.done
    /\ fx' = [fx EXCEPT !.done = TRUE,
                        !.out = format_litigation_summary(fx.arg)]
    /\ UNCHANGED race
    /\ UNCHANGED <<dateVars, normVars, uploadVars, mainVars>>

(***************************************************************************)
(* Specifications                                                          *)
(***************************************************************************)
DatesIdle == /\ today = FirstDay /\ tpc = "idle" /\ tdToday = None
             /\ tdInner = None /\ targetDates = <<>>
NormIdle == nrm = NoNorm /\ scan = NoScan
UploadIdle == sheet = <<>> /\ service = FALSE /\ ncalls = 0 /\ last = NoCall
MainIdle == /\ mpc = "off" /\ buckets = NoBuckets /\ log = <<>>
            /\ results = NoResults /\ exitCode = -1
CallIdle == fx = NoFx /\ race = NoRace

\* the collectors' view: the clock, get_target_dates and the rulings scan
InitDates == DatesIdle /\ NormIdle /\ UploadIdle /\ MainIdle /\ CallIdle

NextDates ==
    \/ Tick
    \/ GetTargetDates
    \/ GetWeekendDates
    \/ GetYesterdayString
    \/ ReturnTargetDates
    \/ ScanStart
    \/ ScanRow
    \/ ScanDecide
    \/ ScanNext
    \/ ScanEnd
    \/ ScanReturn

SpecDates == InitDates /\ [][NextDates]_vars

\* normalize_date_for_compare applied to pairs of date strings
InitNorm ==
    /\ DatesIdle /\ UploadIdle /\ MainIdle /\ CallIdle
    /\ nrm \in NormInputs
    /\ scan = NoScan

NextNorm == Normalize

SpecNorm == InitNorm /\ [][NextNorm]_vars

\* a single writer calling the upload operations of one SheetsUploader,
\* whose service is still None or was set before the first call
InitUpload ==
    /\ DatesIdle /\ NormIdle /\ MainIdle /\ CallIdle
    /\ sheet \in InitialSheets
    /\ service \in BOOLEAN
    /\ ncalls = 0 /\ last = NoCall

NextUpload == Upload

SpecUpload == InitUpload /\ [][NextUpload]_vars

\* one run of main()
InitMain ==
    /\ DatesIdle /\ NormIdle /\ CallIdle
    /\ sheet \in InitialSheets
    /\ service = FALSE /\ ncalls = 0 /\ last = NoCall
    /\ mpc = "start" /\ buckets = NoBuckets /\ log = <<>>
    /\ results = NoResults /\ exitCode = -1

NextMain ==
    \/ MainSetup
    \/ \E i \in 1..3 : CollectTaxsutra(i)
    \/ CollectTaxmann
    \/ SaveJsonBackup
    \/ \E i \in 1..NumUploads : MainUpload(i)
    \/ SendEmail
    \/ ShipFiles

SpecMain == InitMain /\ [][NextMain]_vars

\* is_target_date applied to drawn arguments
InitTarget ==
    /\ DatesIdle /\ NormIdle /\ UploadIdle /\ MainIdle
    /\ fx \in IsTargetDateInputs
    /\ race = NoRace

NextTarget == ApplyIsTargetDate

SpecTarget == InitTarget /\ [][NextTarget]_vars

\* normalize_date_for_compare applied to strings that may denote no day
InitNormalize ==
    /\ DatesIdle /\ NormIdle /\ UploadIdle /\ MainIdle
    /\ fx \in NormalizeInputs
    /\ race = NoRace

NextNormalize == ApplyNormalize

SpecNormalize == InitNormalize /\ [][NextNormalize]_vars

\* the rows of one record of any kind, prepared for upload
InitRows ==
    /\ DatesIdle /\ NormIdle /\ UploadIdle /\ MainIdle
    /\ fx \in PrepareInputs
    /\ race = NoRace

NextRows == ApplyPrepareData

SpecRows == InitRows /\ [][NextRows]_vars

\* one rulings scan, within one calendar day, over a date-descending listing
InitScan ==
    /\ today \in ClockDays
    /\ tpc = "idle" /\ tdToday = None /\ tdInner = None /\ targetDates = <<>>
    /\ NormIdle /\ UploadIdle /\ MainIdle
    /\ fx = NoScanLog
    /\ race = NoRace

NextScan ==
    \/ GetTargetDates
    \/ GetWeekendDates
    \/ GetYesterdayString
    \/ ScanStart
    \/ ExamineRow
    \/ ScanEnd

SpecScan == InitScan /\ [][NextScan]_vars

\* the collectors of one run of main(), each working out its target dates,
\* while the clock runs
InitRun ==
    /\ DatesIdle /\ NormIdle /\ UploadIdle /\ MainIdle
    /\ fx = NoRunLog
    /\ race = NoRace

NextRun ==
    \/ Tick
    \/ CollectorGetTargetDates
    \/ GetWeekendDates
    \/ GetYesterdayString
    \/ CollectorReturns
    \/ TaxmannYesterday

SpecRun == InitRun /\ [][NextRun]_vars

\* two uploaders appending to one tab at the same time
InitRace ==
    /\ DatesIdle /\ NormIdle /\ MainIdle
    /\ sheet \in InitialSheets
    /\ service = TRUE /\ ncalls = 0 /\ last = NoCall
    /\ fx = NoFx
    /\ race \in RaceInputs

NextRace ==
    \/ \E p \in Uploaders : RaceRead(p)
    \/ \E p \in Uploaders : RaceWrite(p)

SpecRace == InitRace /\ [][NextRace]_vars

\* one rulings scan, within one calendar day, over a listing of several pages
InitPages ==
    /\ today \in ClockDays
    /\ tpc = "idle" /\ tdToday = None /\ tdInner = None /\ targetDates = <<>>
    /\ nrm = NoNorm /\ scan = NoPagedScan
    /\ UploadIdle /\ MainIdle
    /\ \E l \in Listings :
         fx = [fn |-> "listing", done |-> FALSE, arg |-> l, out |-> <<>>]
    /\ race = NoRace

NextPages ==
    \/ GetTargetDates
    \/ GetWeekendDates
    \/ GetYesterdayString
    \/ PagedStart
    \/ LoadPage
    \/ PagedRow
    \/ NextPage

SpecPages == InitPages /\ [][NextPages]_vars

\* the same with the single thread of the scan never halting while it can
\* take a step.  LoadPage is enabled exactly when scan.pc = "page" and
\* every LoadPage step leaves that position, so its weak fairness is
\* written by its enabling condition
PagesFairness ==
    /\ WF_vars(GetTargetDates)
    /\ WF_vars(GetWeekendDates)
    /\ WF_vars(GetYesterdayString)
    /\ WF_vars(PagedStart)
    /\ []<>(scan.pc # "page")
    /\ WF_vars(PagedRow)
    /\ WF_vars(NextPage)

SpecPagesFair == InitPages /\ [][NextPages]_vars /\ PagesFairness

InitLogin ==
    /\ DatesIdle /\ NormIdle /\ UploadIdle /\ MainIdle
    /\ fx \in LoginInputs
    /\ race = NoRace

NextLogin == CallLogin \/ CallLoginAndNavigate

SpecLogin == InitLogin /\ [][NextLogin]_vars

InitRuns ==
    /\ DatesIdle /\ NormIdle /\ UploadIdle /\ MainIdle
    /\ fx \in RunInputs
    /\ race = NoRace

NextRuns == ApplySummaryLines \/ ApplyLitigationSummary

SpecRuns == InitRuns /\ [][NextRuns]_vars

(***************************************************************************)
(* Claims about the upload operations (SpecUpload)                         *)
(***************************************************************************)
\* the rows of sh that hold a header
HeaderRows(sh) == {i \in 1..Len(sh) : sh[i] = get_sheet_headers}

\* C1: with clear_first=false an upload never changes a row that was
\* populated before the call: after a call that wrote, every row the sheet
\* held before is still there with its values, and the rows written start
\* strictly after the last populated row.
C1_AppendKeepsRows ==
    (last.kind # "none" /\ ~last.clear /\ last.wrote) =>
        /\ Len(sheet) >= Len(last.before)
        /\ \A i \in 1..Len(last.before) : sheet[i] = last.before[i]
        /\ last.start > Len(last.before)

\* C2: two clear_first=false uploads of the same bucket, one after the
\* other, on an initially empty sheet leave exactly 2 * len(bucket) data rows
\* and exactly one header row, which is row 1.
C2_TwiceAppendsTwice ==
    last.twice =>
        /\ Len(sheet) = 1 + 2 * Len(last.bucket)
        /\ HeaderRows(sheet) = {1}

\* C3: an upload with clear_first=true that wrote its rows leaves the sheet
\* with exactly one header row and len(bucket) data rows, whatever the sheet
\* held before.
C3_ClearFirstLeavesBucket ==
    (last.kind # "none" /\ last.clear /\ last.wrote) =>
        /\ Len(sheet) = 1 + Len(last.bucket)
        /\ sheet = PrepareData(last.kind, last.bucket)

\* C4: an upload returns False when authentication fails or when a call it
\* makes to the store (reading the rows, clearing, writing) fails.
C4_FaultReturnsFalse ==
    (\/ last.o.auth = "fail"
     \/ last.o.read \in {"http", "error"}
     \/ last.o.clear \in {"http", "error"}
     \/ last.o.write = "fail") => ~last.result

(***************************************************************************)
(* Claims about main() (SpecMain)                                          *)
(***************************************************************************)
\* main() has left the uploads behind
UploadsOver == mpc \in {"email", "ftp"} \/ (mpc = "returned" /\ log # <<>>)

\* the positions of log that are upload attempts
UploadAttempts == {k \in 1..Len(log) : log[k] # "backup"}

C7_MondayGivesWeekend ==
    (tpc = "done" /\ Weekday(tdToday) = 0 /\ tdInner = tdToday) =>
        /\ Len(targetDates) = 2
        /\ targetDates[1] = StrfShort(MinusDays(tdToday, 2))
        /\ targetDates[2] = StrfShort(MinusDays(tdToday, 1))
        /\ Weekday(MinusDays(tdToday, 2)) = 5
        /\ Weekday(MinusDays(tdToday, 1)) = 6

C7_Witness ==
    /\ tpc = "done" /\ Weekday(tdToday) = 0 /\ tdInner = tdToday
    /\ targetDates = <<StrfShort([y |-> 2024, m |-> 3, d |-> 2]),
                       StrfShort([y |-> 2024, m |-> 3, d |-> 3])>>

\* C8: when today is Tuesday to Friday get_target_dates returns exactly one
\* entry, the value of get_yesterday_string(); when today is Saturday or
\* Sunday it returns the empty sequence.
C8_WeekdayGivesYesterday ==
    tpc = "done" =>
        /\ Weekday(tdToday) \in 1..4 =>
              targetDates = <<get_yesterday_string(tdInner)>>
        /\ (Weekday(tdToday) \in 1..4 /\ tdInner = tdToday) =>
              targetDates = <<StrfShort(PrevDay(tdToday))>>
        /\ Weekday(tdToday) \in {5, 6} => targetDates = <<>>

C8_Witness ==
    /\ tpc = "done" /\ Weekday(tdToday) = 4 /\ tdInner = tdToday
    /\ targetDates = <<StrfShort([y |-> 2024, m |-> 2, d |-> 29])>>

\* C10: the rulings scan accepts a record whenever its date string denotes
\* one of the target days, in whichever supported format it is written.
C10_AcceptsEveryFormat ==
    (/\ scan.pc = "decided" /\ scan.day # None
     /\ \E i \in 1..Len(targetDates) : targetDates[i] = StrfShort(scan.day))
        => scan.decision = "accept"

(***************************************************************************)
(* Claims about normalize_date_for_compare (SpecNorm)                      *)
(***************************************************************************)
\* C9: two date strings that denote the same calendar day, each in one of
\* the supported formats, with or without ordinal suffix and leading zero,
\* have the same normalize_date_for_compare value.
C9_SameDaySameNormal ==
    (nrm.done /\ nrm.day1 = nrm.day2) => nrm.n1 = nrm.n2

C9_Witness ==
    /\ nrm.done
    /\ nrm.day1 = [y |-> 2024, m |-> 3, d |-> 2] /\ nrm.day2 = nrm.day1
    /\ nrm.d1 = Render(nrm.day1, 3, FALSE, TRUE)
    /\ nrm.d2 = Render(nrm.day1, 7, TRUE, FALSE)
    /\ nrm.n1 = nrm.n2

(***************************************************************************)
(* Claims about is_target_date (SpecTarget)                                *)
(***************************************************************************)
\* C14: is_target_date returns False and does not raise when the date
\* string is empty, None or "N/A", for every list of target dates, the
\* empty list and lists holding "N/A" included.
C14_BlankIsNoTarget ==
    (fx.fn = "is_target_date" /\ fx.done
       /\ fx.arg.date_string \in {PyNone, Empty, NA})
        => fx.out = "False"

C14_Witness ==
    /\ fx.fn = "is_target_date" /\ fx.done
    /\ fx.arg.date_string = PyNone
    /\ fx.arg.target_dates = <<StrfShort(FirstDay), NA>>
    /\ fx.out = "False"

(***************************************************************************)
(* Claims about normalize_date_for_compare on any input (SpecNormalize)    *)
(***************************************************************************)
\* C15: when the input denotes no calendar day, so that neither a format
\* nor a fallback pattern yields a date, normalize_date_for_compare returns
\* the input string exactly as it was passed in.
C15_UnparsedComesBackUnchanged ==
    (fx.fn = "normalize_date_for_compare" /\ fx.done /\ fx.arg.day = None)
        => fx.out = fx.arg.date_str

(***************************************************************************)
(* Claims about get_next_available_row (SpecUpload)                        *)
(***************************************************************************)
\* C16: get_next_available_row returns 1 when column A of the sheet holds
\* no values and otherwise the number of rows of that column plus 1.  The
\* value it returned is the row at which a clear_first=false call wrote.
C16_NextRowFollowsColumn ==
    (last.kind # "none" /\ ~last.clear /\ last.wrote) =>
        last.start = IF ColumnA(last.before) = <<>> THEN 1
                     ELSE Len(ColumnA(last.before)) + 1

(***************************************************************************)
(* Claims about the rows prepared for upload (SpecRows)                    *)
(***************************************************************************)
\* the row prepared from the drawn record
PreparedRow == fx.out[2]

\* column c of the drawn record is read from fields that are all absent
CellAbsent(c) ==
    /\ CellKeys(fx.arg.kind, c) # {}
    /\ \A k \in CellKeys(fx.arg.kind, c) : fx.arg.rec[k] = Missing

\* the row has 4 cells and no cell or piece of the summary is left out
FourCells ==
    /\ Len(fx.out) = 2
    /\ Len(PreparedRow) = 4
    /\ \A c \in 1..3 : PreparedRow[c] # Missing
    /\ \A j \in 1..Len(PreparedRow[4]) : PreparedRow[4][j] # Missing

\* C18 as stated: every row prepared for upload, of any kind and for any
\* subset of the record's fields missing, has exactly 4 cells, and the cell
\* of a missing field holds "N/A" or the empty string.
C18_MissingGivesNAOrEmpty ==
    (fx.fn = "prepare_data_for_upload" /\ fx.done) =>
        /\ FourCells
        /\ \A c \in 1..3 : CellAbsent(c) => PreparedRow[c] \in {"N/A", ""}

\* C18 amended: every row prepared for upload, of any kind and for any
\* subset of the record's fields missing, has exactly 4 cells, and the cell
\* of a missing field holds "N/A" or the empty string, or "General" for the
\* Sub-Category of a Taxmann update.
C18_RowsHaveFourCells ==
    (fx.fn = "prepare_data_for_upload" /\ fx.done) =>
        /\ FourCells
        /\ \A c \in 1..3 : CellAbsent(c) =>
              \/ PreparedRow[c] \in {"N/A", ""}
              \/ fx.arg.kind = "taxmann" /\ c = 3 /\ PreparedRow[c] = "General"

\* a rulings row was prepared from a record with every field missing
C18_Witness ==
    /\ fx.fn = "prepare_data_for_upload" /\ fx.done
    /\ fx.arg.kind = "rulings"
    /\ \A k \in RowKeys("rulings") : fx.arg.rec[k] = Missing
    /\ Len(PreparedRow) = 4
    /\ PreparedRow[1] = "N/A"

(***************************************************************************)
(* Claims about the rulings scan over a listing (SpecScan, SpecDates)      *)
(***************************************************************************)
\* the calendar days the target dates of the run denote
RunTargetDays ==
    {d \in {MinusDays(today, i) : i \in 0..MaxAge + MaxDays} :
        \E i \in 1..Len(targetDates) : targetDates[i] = StrfShort(d)}

\* row k of the listing is dated today, a target day, a day before every
\* target day
RowIsToday(k) == fx.arg[k].day = today
RowIsTarget(k) == fx.arg[k].day \in RunTargetDays
RowIsOlder(k) ==
    /\ RunTargetDays # {}
    /\ \A t \in RunTargetDays : ToOrdinal(fx.arg[k].day) < ToOrdinal(t)

\* C11: for a date-descending stream that starts [today, target, target,
\* older], the scan skips the first record, accepts exactly the two target
\* records and stops at the older record; no further record is examined.
C11_StopsAtFirstOlder ==
    (/\ fx.fn = "scrape_yesterday_rulings" /\ Len(fx.arg) >= 4
     /\ RowIsToday(1) /\ RowIsTarget(2) /\ RowIsTarget(3) /\ RowIsOlder(4))
        => /\ fx.out = <<"skip_today", "accept", "accept", "stop">>
           /\ scan.accepted = 2
           /\ scan.pc = "returned"

\* a scan is deciding on a row while the clock shows the Monday on which the
\* target dates were computed
MondayRun ==
    /\ scan.pc = "decided"
    /\ Weekday(today) = 0
    /\ tdToday = today /\ tdInner = today

\* C12: on a Monday run a record dated the preceding Saturday or Sunday is
\* accepted; a record dated the Monday itself is skipped without stopping
\* the scan, before and after the first acceptance; a record dated the
\* preceding Friday, seen after an acceptance, stops the scan.
C12_MondayWindow ==
    MondayRun =>
        /\ scan.day \in {MinusDays(today, 1), MinusDays(today, 2)}
              => scan.decision = "accept"
        /\ scan.day = today => scan.decision = "skip_today"
        /\ (scan.day = MinusDays(today, 3) /\ scan.found)
              => scan.decision = "stop"

\* C13: the scan stops only at a record dated before every target date and
\* only after a record was accepted; a record with a future date, with a
\* date that cannot be read or with 'N/A' never stops the scan.
C13_StopsOnlyAtOlder ==
    (scan.pc = "decided" /\ scan.decision = "stop") =>
        /\ scan.found
        /\ scan.day # None
        /\ RunTargetDays # {}
        /\ \A t \in RunTargetDays : ToOrdinal(scan.day) < ToOrdinal(t)

(***************************************************************************)
(* Claims about the target dates of one run (SpecRun)                      *)
(***************************************************************************)
\* the calendar days a list of target date strings denotes
WindowDays(dates) ==
    {d \in {MinusDays(today, i) : i \in 0..MaxDays + 2} :
        \E i \in 1..Len(dates) :
            dates[i] \in {StrfShort(d), Render(d, 2, TRUE, FALSE)}}

\* C17: the target dates are the same for every collector of one run
\* (rulings, expert corner, litigation tracker, Taxmann archives), also when
\* midnight passes between two collectors.
C17_OneWindowPerRun ==
    fx.fn = "main" =>
        \A i, j \in 1..Len(fx.out) :
            WindowDays(fx.out[i].dates) = WindowDays(fx.out[j].dates)

\* the collectors of the run that read the clock on a Saturday or a Sunday
WeekendEntries ==
    {i \in 1..Len(fx.out) : Weekday(fx.out[i].day) \in {5, 6}}

\* C23: a collector run on a Saturday or a Sunday (rulings, expert corner,
\* litigation tracker, Taxmann archives) accepts no record and so returns
\* an empty bucket.
C23_WeekendBucketsEmpty ==
    fx.fn = "main" => \A i \in WeekendEntries : fx.out[i].accepted = {}

(***************************************************************************)
(* Claims about two concurrent uploaders (SpecRace)                        *)
(***************************************************************************)
\* both uploaders read the next row before either wrote, and both wrote
BothReadThenWrote ==
    /\ race.pc = <<"done", "done">>
    /\ race.order[1][1] = "read" /\ race.order[2][1] = "read"

\* the uploader that wrote first, and the one that wrote last
FirstWriter == race.order[3][2]
LastWriter == race.order[4][2]

\* C19: when two uploaders with clear_first=false both read the next row
\* before either writes, they read the same row, and the rows the first
\* writer put there are overwritten by the rows of the last writer; only the
\* rows of the first writer beyond those survive.
C19_LastWriterOverwrites ==
    BothReadThenWrote =>
        /\ race.next_row[1] = race.next_row[2]
        /\ \A k \in 1..Len(race.body[LastWriter]) :
              sheet[race.start[LastWriter] + k - 1] = race.body[LastWriter][k]
        /\ \A k \in 1..Len(race.body[FirstWriter]) :
              k > Len(race.body[LastWriter]) =>
                 sheet[race.start[FirstWriter] + k - 1]
                    = race.body[FirstWriter][k]

\* both read row 3 of a tab that held two rows, and the first record the
\* first writer appended is no longer in the tab
C19_Witness ==
    /\ BothReadThenWrote
    /\ race.next_row = <<3, 3>>
    /\ race.body[FirstWriter] # <<>>
    /\ race.body[LastWriter] # <<>>
    /\ sheet[3] = race.body[LastWriter][1]
    /\ \A i \in 1..Len(sheet) : sheet[i] # race.body[FirstWriter][1]

NoDriver == fx.fn = "setup_driver" /\ fx.out = <<>>

\* C21: when setup_driver returns None, main() aborts early: it returns a
\* nonzero exit status, before the backup, and performs no upload.
C21_NoDriverAborts ==
    NoDriver =>
        /\ mpc \in {"collect1", "returned"}
        /\ mpc = "returned" => exitCode = 1
        /\ log = <<>>
        /\ results = NoResults
        /\ buckets = NoBuckets

\* main() has returned 1 after setup_driver returned None
C21_Witness ==
    /\ NoDriver
    /\ mpc = "returned" /\ exitCode = 1
    /\ log = <<>>

(***************************************************************************)
(* Claims about the rulings scan over several pages (SpecPages)            *)
(***************************************************************************)
\* a scan over the pages of the drawn listing is under way or has returned
PagedScan == fx.fn = "listing" /\ scan.pc # "idle"

\* the pages that hold a record dated before every target date
OlderPages ==
    {p \in 1..Len(fx.arg) :
        \E i \in 1..Len(fx.arg[p]) :
            \A t \in RunTargetDays :
                ToOrdinal(fx.arg[p][i].day) < ToOrdinal(t)}

\* C22: for every date-descending listing, with or without a record inside
\* the target window, the scan asks for no page after the page that holds
\* the first record older than every target date.
C22_NoPageAfterFirstOlder ==
    (PagedScan /\ RunTargetDays # {} /\ OlderPages # {}) =>
        \A p \in OlderPages : scan.top <= p

\* C27: in one scan every record of the listing is appended to the result
\* at most once.
C27_AppendedAtMostOnce ==
    PagedScan => \A r \in DOMAIN scan.appended : scan.appended[r] <= 1

\* C28: the scan terminates on every finite listing.
C28_ScanTerminates == <>(scan.pc = "returned")

\* every record inside the target window that follows a record whose detail
\* page raised has been dealt with: it was appended or its own detail page
\* raised
LaterRecordsHandled ==
    \A k \in scan.failed :
        \A j \in DOMAIN scan.appended :
            (j > k /\ Flatten(fx.arg)[j].day \in RunTargetDays)
                => (scan.appended[j] >= 1 \/ j \in scan.failed)

\* C25: when the detail page of an accepted-date record raised, the scan
\* skips that record only and goes on: every later record of the listing
\* inside the target window is accepted in the end (or skipped for a
\* failure of its own).
C25_FailureSkipsOneRecord ==
    (PagedScan /\ scan.failed # {}) ~> LaterRecordsHandled

(***************************************************************************)
(* Claims about the requests of one upload call that carry cell values     *)
(* (SpecUpload)                                                            *)
(***************************************************************************)
\* the last call was made with clear_first=False and its values().update
\* went through
AppendWrote == last.kind # "none" /\ ~last.clear /\ last.wrote

\* what get_next_available_row returned to the last call
NextRowRead == get_next_available_row(ColumnA(last.before), last.o.read)

\* the values().update of the last call: the rows of the bucket, under the
\* headers when the tab was found empty, from the row that was read
TheUpdate ==
    [via |-> "values.update", col |-> "A", row |-> NextRowRead,
     rows |-> IF NextRowRead = 1 THEN Len(last.bucket) + 1
              ELSE Len(last.bucket)]

\* C24 as stated: in a call with clear_first=False the next available row
\* is read once and used for exactly one write of cell values, the
\* contiguous rows from that row on; the call writes cell values nowhere
\* else, the formatting steps that follow write none.
C24_OneWriteOfCellValues ==
    AppendWrote =>
        /\ last.o.read # "none"
        /\ last.writes = <<TheUpdate>>

\* C24 amended: in a call with clear_first=False the next available row is
\* read once and used for exactly one values().update, the contiguous rows
\* from that row on; every other request that carries cell values is an
\* updateCells of the formatter, which sends one column D cell at or below
\* that row back with the text it read from it.
C24_OneUpdateThenRewrites ==
    AppendWrote =>
        /\ last.o.read # "none"
        /\ Len(last.writes) >= 1
        /\ last.writes[1] = TheUpdate
        /\ \A i \in 2..Len(last.writes) :
              /\ last.writes[i].via = "updateCells"
              /\ last.writes[i].col = "D"
              /\ last.writes[i].rows = 1
              /\ last.writes[i].row >= NextRowRead
              /\ last.writes[i].row <= Len(sheet)

\* rows were appended below the rows of an earlier run and the formatter
\* sent the text of an appended cell again
C24_Witness ==
    /\ AppendWrote
    /\ NextRowRead >= 3
    /\ Len(last.writes) >= 2

(***************************************************************************)
(* Claims about the result of an upload call (SpecUpload)                  *)
(***************************************************************************)
\* C26: for each of the four upload operations and both values of
\* clear_first the returned boolean agrees with the store: after a False no
\* row of the bucket was written (the tab is as it was, or cleared), and a
\* call whose values().update went through returns True.
C26_ResultAgreesWithStore ==
    last.kind # "none" =>
        /\ ~last.result => sheet \in {last.before, ClearedSheet}
        /\ last.wrote => last.result

(***************************************************************************)
(* Claims about login_to_taxsutra (SpecLogin)                               *)
(***************************************************************************)
\* C29: login_to_taxsutra returns True when the login succeeds and False
\* otherwise, on every path: when the session is already logged in and when
\* the login form was filled in and submitted without error; and
\* login_and_navigate, which relies on it, reports the same.
C29_LoginResultIsBoolean ==
    (fx.fn \in {"login_to_taxsutra", "login_and_navigate"} /\ fx.done) =>
        fx.out[1] = IF LoggedIn(fx.arg) THEN "True" ELSE "False"

(***************************************************************************)
(* Claims about the text format runs (SpecRuns)                            *)
(***************************************************************************)
\* the runs of one cell were built
RunsBuilt ==
    fx.fn \in {"format_summary_lines", "format_litigation_summary"} /\ fx.done

\* C30: every text format run emitted for a summary cell has a startIndex
\* of at least 0 and less than the length of the cell text, and the
\* startIndex values of the runs of one cell increase strictly, for every
\* non-empty cell text, a litigation summary of a single line included.
C30_RunsInsideTextAndIncreasing ==
    RunsBuilt =>
        \A k \in 1..Len(fx.out) :
            /\ fx.out[k].startIndex >= 0
            /\ fx.out[k].startIndex < Len(fx.arg)
            /\ k > 1 => fx.out[k - 1].startIndex < fx.out[k].startIndex

====
